---- MODULE Spec2Model ----
(***************************************************************************)
(* Model of the virtualization hooks (hooks/useVirtualization.js):        *)
(* useVirtualization, useInfiniteVirtualization, useGridVirtualization    *)
(* and useMasonryVirtualization, with the throttle utility                *)
(* (utils/performance.js) that rate-limits the scroll handlers; of the    *)
(* utilities debounce, AnimationFrame and MemoryManager.createExpiredCache *)
(* (utils/performance.js); of LazyImage on the shared lazyLoader; of the  *)
(* analytics sync and the measurement queue of the service worker; and of *)
(* the PerformanceMonitor script.                                          *)
(* Each specification runs one hook or one component; props of the same   *)
(* name (items, itemHeight, getItemHeight, containerHeight, overscan)     *)
(* share a variable.                                                       *)
(*                                                                         *)
(* Values derived with useMemo are operators over the hook's state; each  *)
(* action is one event handled by the hook followed by the render (and,   *)
(* for the infinite hook, the effect) that the event causes.  Timers run  *)
(* on a discrete clock; a timeout that is due runs before time moves on.  *)
(*                                                                         *)
(* Indices are 0-based as in the source; TLA+ sequences are 1-based, so   *)
(* the element of index i of an array a is a[i + 1].                      *)
(***************************************************************************)
EXTENDS Integers, Sequences, FiniteSets, TLC

(* ----- bounds of the model ----- *)
MaxItems == 3
MaxItemExtent == 1
MaxUniformHeight == 2
MaxMeasured == 1
MaxEstimate == 2
MaxViewport == 1
MaxOverscan == 1
MaxScroll == 3
MaxThreshold == 1
MaxEffectRuns == 3
MaxColumnWidth == 2
MaxContainerWidth == 3
MaxGap == 1
MaxColumns == 2
MaxItemWidth == 2
MaxTime == 3
MaxTtl == 2
MaxKeys == 2
MaxValues == 2
MaxWait == 2
MaxArgs == 2
MaxCallbacks == 2
MaxListed == 3
MaxTicks == 3
MaxImages == 3
MaxSources == 2
MaxMeasurements == 2
MaxRequests == 3
MaxAudits == 1

VARIABLES
    items,                 \* prop items: the sequence of (opaque) items
    itemHeight,            \* prop itemHeight: <<>> when not a number, <<h>> when the number h
    getItemHeight,         \* prop getItemHeight: <<>> when absent, else <<f>> with f[index + 1]
                           \* the value getItemHeight(items[index], index) returns
    containerHeight,       \* prop containerHeight
    overscan,              \* prop overscan
    estimatedItemHeight,   \* prop estimatedItemHeight
    scrollTop,             \* useState scrollTop
    heights,               \* useState heights: Map index -> measured height
    visibleRange,          \* useMemo visibleRange: the range computed by the latest render
    inThrottle,            \* closure variable of throttle(); TRUE while its timer is pending
    elementScrollTop,      \* scrollTop of the scroll element (event.target.scrollTop)
    scrollElementAttached, \* TRUE when scrollElementRef.current is an element
    reported,              \* index -> height of the most recent measurement report for it
    hasNextPage,           \* prop hasNextPage
    isFetchingNextPage,    \* prop isFetchingNextPage
    loadMoreThreshold,     \* prop loadMoreThreshold
    fetchNextPage,         \* prop fetchNextPage: identity of the callback, or "undefined"
    fetchCalls,            \* number of invocations of fetchNextPage so far
    effectRuns,            \* number of runs of the load-more effect so far
    fired,                 \* TRUE when the most recent run of the effect invoked fetchNextPage
    crossings,             \* number of times items.length - end <= loadMoreThreshold became true
    columnWidth,           \* masonry prop columnWidth
    containerWidth,        \* grid and masonry prop containerWidth
    gap,                   \* grid and masonry prop gap
    positions,             \* masonry useState positions
    positionsPending,      \* TRUE when the masonry position effect has yet to run
    globalContainerHeight, \* the global binding containerHeight the masonry hook reads:
                           \* <<>> when no such global exists, else <<value>>
    masonryRaised,         \* TRUE when a render of the masonry hook threw
    itemWidth,             \* grid prop itemWidth
    columns,               \* grid prop columns: <<>> when absent, else <<c>>
    scrollLeft,            \* grid useState scrollLeft
    mounted,               \* TRUE while the component that calls the hook is mounted
    sizingThrowsAt,        \* the indices for which a call of getItemHeight throws
    now,                   \* the clock the timers of the utilities run on
    ttl,                   \* createExpiredCache: parameter ttl
    cache,                 \* createExpiredCache: Map cache, key -> value
    timers,                \* createExpiredCache: Map timers, key -> timer handle
    pendingTimeouts,       \* the timeouts set by the cache and not yet fired or cleared:
                           \* records [id, key, at]
    liveUntil,             \* key -> now + ttl of the most recent set of the key that no
                           \* delete or clear followed
    wait,                  \* debounce: parameter wait
    immediate,             \* debounce: parameter immediate
    timeout,               \* debounce: closure variable timeout, << >> when undefined or
                           \* null, else <<handle>>
    debounceTimeouts,      \* the timeouts set by the debounced function and not yet fired
                           \* or cleared: records [id, at, args]
    lastCall,              \* << >> or <<[at, args]>>: the latest call of the debounced function
    burstFirst,            \* << >> or <<[at, args]>>: the latest call made with no timeout
                           \* pending
    lastRun,               \* << >> or <<[at, args]>>: the latest invocation of func
    runsInBurst,           \* invocations of func since the call recorded in burstFirst
    callbacks,             \* AnimationFrame: this.callbacks
    isRunning,             \* AnimationFrame: this.isRunning
    pendingTicks,          \* number of callbacks () => this.tick() passed to
                           \* requestAnimationFrame and not yet run
    invokedInFrame,        \* callback -> number of times the latest frame invoked it
    lazySrc,               \* LazyImage: mounted lazy image -> its prop src
    observed,              \* the elements the IntersectionObserver of lazyLoader observes
    loadedSrc,             \* mounted image -> the src loadElement gave its element
    online,                \* service worker: navigator.onLine
    performanceQueue,      \* the cache 'performance-queue': << >> or <<measurement>> under
                           \* the one URL /analytics/performance
    analyticsQueue,        \* the cache 'analytics-queue': the requests it holds
    syncing,               \* TRUE once syncAnalytics has been started
    syncRemaining,         \* the requests the running pass of syncAnalytics has yet to try
    syncSnapshot,          \* the requests cache.keys() returned to the latest pass
    syncSucceeded,         \* requests of the latest pass whose fetch resolved
    syncFailed,            \* requests of the latest pass whose fetch rejected
    handed,                \* the measurements passed to queuePerformanceData so far
    delivered,             \* the measurements a fetch has sent to /analytics/performance
    configThresholds,      \* PerformanceMonitor: config.thresholds as passed to the
                           \* constructor, << >> when the config has none, else <<map>>
    thresholds,            \* PerformanceMonitor: this.config.thresholds
    audits,                \* number of runs of runAudit so far
    lastReport,            \* << >> or <<report>>: the Lighthouse report of the latest audit
    issues,                \* analysis.issues of the latest audit, as the names concerned
    warnings,              \* analysis.warnings of the latest audit, as the names concerned
    alerted                \* TRUE when the latest audit called sendAlert

listVars == <<items, itemHeight, getItemHeight, containerHeight, overscan,
              estimatedItemHeight, scrollTop, heights, visibleRange, inThrottle,
              elementScrollTop, scrollElementAttached, reported>>
infiniteVars == <<hasNextPage, isFetchingNextPage, loadMoreThreshold, fetchNextPage,
                  fetchCalls, effectRuns, fired, crossings>>
masonryVars == <<columnWidth, containerWidth, gap, positions, positionsPending,
                 globalContainerHeight, masonryRaised>>
gridVars == <<itemWidth, columns, scrollLeft>>
layoutVars == <<masonryVars, gridVars>>
hostVars == <<mounted, sizingThrowsAt>>
cacheVars == <<ttl, cache, timers, pendingTimeouts, liveUntil>>
debounceVars == <<wait, immediate, timeout, debounceTimeouts, lastCall, burstFirst,
                  lastRun, runsInBurst>>
frameVars == <<callbacks, isRunning, pendingTicks, invokedInFrame>>
lazyVars == <<lazySrc, observed, loadedSrc>>
workerVars == <<online, performanceQueue, analyticsQueue, syncing, syncRemaining,
                syncSnapshot, syncSucceeded, syncFailed, handed, delivered>>
monitorVars == <<configThresholds, thresholds, audits, lastReport, issues, warnings, alerted>>
utilVars == <<now, cacheVars, debounceVars, frameVars, lazyVars, workerVars, monitorVars>>
vars == <<listVars, infiniteVars, layoutVars, hostVars, utilVars>>

Max(a, b) == IF a >= b THEN a ELSE b
Min(a, b) == IF a <= b THEN a ELSE b

(* ----- input sets ----- *)
ItemsOfLength(n) == [j \in 1..n |-> j]
ItemSeqs == {ItemsOfLength(n) : n \in 0..MaxItems}
OptionalHeights == {<<>>} \cup {<<h>> : h \in 0..MaxUniformHeight}
SizingFunctions(n) == {<<f>> : f \in [1..n -> 0..MaxItemExtent]}
OptionalElements == {<<>>} \cup {<<h>> : h \in 0..MaxMeasured}
CallbackIds == {"undefined", "f"}

(* typeof itemHeight === 'number' *)
IsNumber(x) == Len(x) = 1

(* Array.prototype.reduce((sum, height) => sum + height, 0) *)
RECURSIVE SumSeq(_)
SumSeq(a) == IF a = <<>> THEN 0 ELSE a[1] + SumSeq(Tail(a))

(* the position an argument of slice denotes: a negative argument counts
   from the end of the array *)
RelativeIndex(k, length) ==
    IF k < 0 THEN Max(length + k, 0) ELSE Min(k, length)

(* Array.prototype.slice(from, to) *)
Slice(a, from, to) ==
    LET lo == RelativeIndex(from, Len(a))
        hi == RelativeIndex(to, Len(a))
    IN  IF hi <= lo THEN <<>> ELSE [j \in 1..(hi - lo) |-> a[lo + j]]

(* heights.get(index) || estimatedItemHeight: an absent or zero entry is falsy *)
MeasuredOrEstimate(index) ==
    IF index \in DOMAIN heights /\ heights[index] # 0
    THEN heights[index]
    ELSE estimatedItemHeight

(* variant of itemHeights that consults the sizing function before the
   uniform height *)
itemHeightsFunctionFirst ==
    IF getItemHeight # <<>>
    THEN [j \in 1..Len(items) |-> getItemHeight[1][j]]
    ELSE IF IsNumber(itemHeight)
         THEN [j \in 1..Len(items) |-> itemHeight[1]]
         ELSE [j \in 1..Len(items) |-> MeasuredOrEstimate(j - 1)]

(* the memoized itemHeights array *)
itemHeights ==
    IF IsNumber(itemHeight)
    THEN [j \in 1..Len(items) |-> itemHeight[1]]
    ELSE IF getItemHeight # <<>>
         THEN [j \in 1..Len(items) |-> getItemHeight[1][j]]
         ELSE [j \in 1..Len(items) |-> MeasuredOrEstimate(j - 1)]

totalHeight == SumSeq(itemHeights)

(* variant of the first loop that compares the leading edge of item i,
   leaving out its height *)
RECURSIVE StartLoopLeadingEdge(_, _, _, _, _)
StartLoopLeadingEdge(h, i, accumulatedHeight, top, over) ==
    IF i >= Len(h) THEN 0
    ELSE IF accumulatedHeight > top
         THEN Max(0, i - over)
         ELSE StartLoopLeadingEdge(h, i + 1, accumulatedHeight + h[i + 1], top, over)

(* first loop of visibleRange: start stays 0 when the loop ends without a break *)
RECURSIVE StartLoop(_, _, _, _, _)
StartLoop(h, i, accumulatedHeight, top, over) ==
    IF i >= Len(h) THEN 0
    ELSE IF accumulatedHeight + h[i + 1] > top
         THEN Max(0, i - over)
         ELSE StartLoop(h, i + 1, accumulatedHeight + h[i + 1], top, over)

(* second loop of visibleRange: the value of end when the loop stops *)
RECURSIVE EndLoop(_, _, _, _, _)
EndLoop(h, i, accumulatedHeight, end, limit) ==
    IF i >= Len(h) THEN end
    ELSE IF accumulatedHeight > limit
         THEN end
         ELSE EndLoop(h, i + 1, accumulatedHeight + h[i + 1], i, limit)

(* variant of the range that does not clamp end to the last index *)
RangeOfUnclamped(h, top, viewport, over, estimate, length) ==
    LET start == StartLoop(h, 0, 0, top, over)
        end == EndLoop(h, start, SumSeq(Slice(h, 0, start)), start,
                       top + viewport + (over * estimate))
    IN  [start |-> start, end |-> end + over]

RangeOf(h, top, viewport, over, estimate, length) ==
    LET start == StartLoop(h, 0, 0, top, over)
        end == EndLoop(h, start, SumSeq(Slice(h, 0, start)), start,
                       top + viewport + (over * estimate))
    IN  [start |-> start, end |-> Min(end + over, length - 1)]

(* the range as a render computes it from the current props and state *)
computedRange ==
    RangeOf(itemHeights, scrollTop, containerHeight, overscan,
            estimatedItemHeight, Len(items))

(* a render after a change of props or state recomputes the memoized range *)
Render ==
    visibleRange' = RangeOf(itemHeights', scrollTop', containerHeight', overscan',
                            estimatedItemHeight', Len(items'))

offsetY == SumSeq(Slice(itemHeights, 0, visibleRange.start))

visibleItems ==
    LET shown == Slice(items, visibleRange.start, visibleRange.end + 1)
    IN  [j \in 1..Len(shown) |->
            [item |-> shown[j], index |-> visibleRange.start + (j - 1)]]

(* ----- useVirtualization: state after the first render ----- *)
InitHookState ==
    /\ scrollTop = 0
    /\ heights = << >>
    /\ inThrottle = FALSE
    /\ elementScrollTop = 0
    /\ reported = << >>
    /\ visibleRange = computedRange

(* useVirtualization used on its own: no page is ever requested and the
   load-more effect does not exist *)
InitNoInfinite ==
    /\ hasNextPage = FALSE
    /\ isFetchingNextPage = FALSE
    /\ loadMoreThreshold = 0
    /\ fetchNextPage = "undefined"
    /\ fetchCalls = 0
    /\ effectRuns = 0
    /\ fired = FALSE
    /\ crossings = 0

(* the component is mounted and every call of getItemHeight returns *)
InitHost ==
    /\ mounted = TRUE
    /\ sizingThrowsAt = {}

(* no cache has been created *)
InitNoCache ==
    /\ ttl = 0
    /\ cache = << >>
    /\ timers = << >>
    /\ pendingTimeouts = {}
    /\ liveUntil = << >>

(* no debounced function has been created *)
InitNoDebounce ==
    /\ wait = 0
    /\ immediate = FALSE
    /\ timeout = << >>
    /\ debounceTimeouts = {}
    /\ lastCall = << >>
    /\ burstFirst = << >>
    /\ lastRun = << >>
    /\ runsInBurst = 0

(* no AnimationFrame has been used *)
InitNoFrame ==
    /\ callbacks = << >>
    /\ isRunning = FALSE
    /\ pendingTicks = 0
    /\ invokedInFrame = << >>

(* no LazyImage is mounted *)
InitNoLazy ==
    /\ lazySrc = << >>
    /\ observed = {}
    /\ loadedSrc = << >>

(* the service worker is not in use *)
InitNoWorker ==
    /\ online = TRUE
    /\ performanceQueue = << >>
    /\ analyticsQueue = {}
    /\ syncing = FALSE
    /\ syncRemaining = << >>
    /\ syncSnapshot = {}
    /\ syncSucceeded = {}
    /\ syncFailed = {}
    /\ handed = {}
    /\ delivered = {}

(* no PerformanceMonitor has been constructed *)
InitNoMonitor ==
    /\ configThresholds = << >>
    /\ thresholds = << >>
    /\ audits = 0
    /\ lastReport = << >>
    /\ issues = {}
    /\ warnings = {}
    /\ alerted = FALSE

(* the utilities of utils/performance.js are not in use *)
InitNoUtil ==
    /\ now = 0
    /\ InitNoCache
    /\ InitNoDebounce
    /\ InitNoFrame
    /\ InitNoLazy
    /\ InitNoWorker
    /\ InitNoMonitor

(* the masonry hook is not in use *)
InitNoMasonry ==
    /\ columnWidth = 1
    /\ positions = << >>
    /\ positionsPending = FALSE
    /\ globalContainerHeight = << >>
    /\ masonryRaised = FALSE

(* the grid hook is not in use *)
InitNoGrid ==
    /\ itemWidth = 1
    /\ columns = << >>
    /\ scrollLeft = 0

(* the list hooks take no container width and no gap *)
InitNoLayout ==
    /\ containerWidth = 0
    /\ gap = 0
    /\ InitNoMasonry
    /\ InitNoGrid

(* variant of the throttled function that applies every event *)
handleScrollEveryEvent(offset) ==
    /\ scrollTop' = offset
    /\ inThrottle' = TRUE

(* the function returned by throttle(func, 16), called with a scroll event *)
handleScroll(offset) ==
    IF ~inThrottle
    THEN /\ scrollTop' = offset
         /\ inThrottle' = TRUE
    ELSE UNCHANGED <<scrollTop, inThrottle>>

(* the host scrolls to offset and dispatches the scroll event *)
ScrollEvent(offset) ==
    /\ elementScrollTop' = offset
    /\ handleScroll(offset)
    /\ UNCHANGED <<items, itemHeight, getItemHeight, containerHeight, overscan,
                   estimatedItemHeight, heights, scrollElementAttached, reported>>
    /\ Render

(* the timer set by throttle expires: () => inThrottle = false *)
ThrottleTimeout ==
    /\ inThrottle
    /\ inThrottle' = FALSE
    /\ UNCHANGED <<items, itemHeight, getItemHeight, containerHeight, overscan,
                   estimatedItemHeight, scrollTop, heights, visibleRange,
                   elementScrollTop, scrollElementAttached, reported>>

(* measureItem(index, element): element is <<>> for null, else <<height>>
   with height = element.getBoundingClientRect().height *)
measureItem(index, element) ==
    /\ IF element = <<>>
       THEN UNCHANGED <<heights, reported>>
       ELSE /\ heights' = [k \in (DOMAIN heights) \cup {index} |->
                              IF k = index THEN element[1] ELSE heights[k]]
            /\ reported' = [k \in (DOMAIN reported) \cup {index} |->
                               IF k = index THEN element[1] ELSE reported[k]]
    /\ UNCHANGED <<items, itemHeight, getItemHeight, containerHeight, overscan,
                   estimatedItemHeight, scrollTop, inThrottle, elementScrollTop,
                   scrollElementAttached>>
    /\ Render

(* ----- the range computation under scrolling, one sizing configuration
         (uniform height, sizing function, or measured with an estimate) ----- *)
InitRange ==
    /\ items \in ItemSeqs
    /\ \/ itemHeight \in OptionalHeights /\ getItemHeight = <<>>
       \/ itemHeight = <<>> /\ getItemHeight \in SizingFunctions(Len(items))
    /\ containerHeight \in 0..MaxViewport
    /\ overscan \in 0..MaxOverscan
    /\ estimatedItemHeight \in 1..MaxEstimate
    /\ scrollElementAttached = TRUE
    /\ InitHookState
    /\ InitNoInfinite
    /\ InitNoLayout
    /\ InitHost
    /\ InitNoUtil

NextRange ==
    \/ \E offset \in 0..MaxScroll :
          ScrollEvent(offset) /\ UNCHANGED <<infiniteVars, layoutVars, hostVars, utilVars>>
    \/ ThrottleTimeout /\ UNCHANGED <<infiniteVars, layoutVars, hostVars, utilVars>>

SpecRange == InitRange /\ [][NextRange]_vars

(* ----- the size model under measurement reports, every combination of
         sizing props; the viewport is fixed and never scrolled ----- *)
InitSize ==
    /\ items \in ItemSeqs
    /\ itemHeight \in OptionalHeights
    /\ getItemHeight \in {<<>>} \cup SizingFunctions(Len(items))
    /\ containerHeight = MaxViewport
    /\ overscan = MaxOverscan
    /\ estimatedItemHeight = MaxEstimate
    /\ scrollElementAttached = TRUE
    /\ InitHookState
    /\ InitNoInfinite
    /\ InitNoLayout
    /\ InitHost
    /\ InitNoUtil

NextSize ==
    \E index \in 0..(MaxItems - 1), element \in OptionalElements :
        measureItem(index, element) /\ UNCHANGED <<infiniteVars, layoutVars, hostVars, utilVars>>

SpecSize == InitSize /\ [][NextSize]_vars

(* ----- programmatic scrolling ----- *)
(* variant of the offset of scrollToIndex that includes the target item *)
scrollOffsetInclusive(index) == SumSeq(Slice(itemHeights, 0, index + 1))

(* offset of scrollToIndex: itemHeights.slice(0, index).reduce(sum, 0) *)
scrollOffset(index) == SumSeq(Slice(itemHeights, 0, index))

(* variant of scrollToIndex that also sets the hook's scroll state *)
scrollToIndexSettingState(index) ==
    /\ IF ~scrollElementAttached
       THEN UNCHANGED <<elementScrollTop, scrollTop>>
       ELSE /\ elementScrollTop' = scrollOffset(index)
            /\ scrollTop' = scrollOffset(index)
    /\ UNCHANGED <<items, itemHeight, getItemHeight, containerHeight, overscan,
                   estimatedItemHeight, heights, visibleRange,
                   inThrottle, scrollElementAttached, reported>>

(* scrollToIndex(index): assigns the scroll element's scrollTop; no hook
   state changes, so nothing is rendered *)
scrollToIndex(index) ==
    /\ IF ~scrollElementAttached
       THEN UNCHANGED elementScrollTop
       ELSE elementScrollTop' = scrollOffset(index)
    /\ UNCHANGED <<items, itemHeight, getItemHeight, containerHeight, overscan,
                   estimatedItemHeight, scrollTop, heights, visibleRange,
                   inThrottle, scrollElementAttached, reported>>

(* scrollToTop() *)
scrollToTop ==
    /\ IF scrollElementAttached
       THEN elementScrollTop' = 0
       ELSE UNCHANGED elementScrollTop
    /\ UNCHANGED <<items, itemHeight, getItemHeight, containerHeight, overscan,
                   estimatedItemHeight, scrollTop, heights, visibleRange,
                   inThrottle, scrollElementAttached, reported>>

(* the scroll event dispatched for the element's current scrollTop *)
ScrollDispatched == ScrollEvent(elementScrollTop)

(* indices passed to scrollToIndex, in and out of range *)
ScrollTargets == (0 - MaxItems)..MaxItems

InitScrollTo ==
    /\ items \in ItemSeqs
    /\ \/ itemHeight \in {<<h>> : h \in 1..MaxUniformHeight} /\ getItemHeight = <<>>
       \/ itemHeight = <<>> /\ getItemHeight \in SizingFunctions(Len(items))
       \/ itemHeight = <<>> /\ getItemHeight = <<>>
    /\ containerHeight = MaxViewport
    /\ overscan = MaxOverscan
    /\ estimatedItemHeight \in 1..MaxEstimate
    /\ scrollElementAttached \in BOOLEAN
    /\ InitHookState
    /\ InitNoInfinite
    /\ InitNoLayout
    /\ InitHost
    /\ InitNoUtil

NextScrollTo ==
    \/ \E index \in ScrollTargets :
          scrollToIndex(index) /\ UNCHANGED <<infiniteVars, layoutVars, hostVars, utilVars>>
    \/ scrollToTop /\ UNCHANGED <<infiniteVars, layoutVars, hostVars, utilVars>>
    \/ ScrollDispatched /\ UNCHANGED <<infiniteVars, layoutVars, hostVars, utilVars>>
    \/ ThrottleTimeout /\ UNCHANGED <<infiniteVars, layoutVars, hostVars, utilVars>>

SpecScrollTo == InitScrollTo /\ [][NextScrollTo]_vars

(* ----- sizing inputs that are negative or throw ----- *)
FaultyHeights == {<<h>> : h \in (-1)..MaxUniformHeight}
FaultySizingFunctions(n) == {<<f>> : f \in [1..n -> (-1)..MaxItemExtent]}

(* the itemHeights memo calls getItemHeight for every item with no try
   block around the call: a call that throws makes the render throw *)
ItemHeightsRaises ==
    /\ ~IsNumber(itemHeight)
    /\ getItemHeight # <<>>
    /\ \E i \in sizingThrowsAt : i < Len(items)

(* state after the first render; a render that throws returns no range and
   leaves the component unmounted *)
InitFaulty ==
    /\ items \in ItemSeqs
    /\ \/ /\ itemHeight \in FaultyHeights
          /\ getItemHeight = <<>>
          /\ sizingThrowsAt = {}
       \/ /\ itemHeight = <<>>
          /\ getItemHeight \in FaultySizingFunctions(Len(items))
          /\ sizingThrowsAt \in {{}} \cup {{i} : i \in 0..(Len(items) - 1)}
       \/ /\ itemHeight = <<>>
          /\ getItemHeight = <<>>
          /\ sizingThrowsAt = {}
    /\ containerHeight = MaxViewport
    /\ overscan = MaxOverscan
    /\ estimatedItemHeight = MaxEstimate
    /\ scrollElementAttached = TRUE
    /\ scrollTop = 0
    /\ heights = << >>
    /\ inThrottle = FALSE
    /\ elementScrollTop = 0
    /\ reported = << >>
    /\ mounted = ~ItemHeightsRaises
    /\ visibleRange = IF ItemHeightsRaises THEN [start |-> 0, end |-> 0] ELSE computedRange
    /\ InitNoInfinite
    /\ InitNoLayout
    /\ InitNoUtil

NextFaulty ==
    \/ \E offset \in 0..MaxScroll :
          mounted /\ ScrollEvent(offset)
            /\ UNCHANGED <<infiniteVars, layoutVars, hostVars, utilVars>>
    \/ mounted /\ ThrottleTimeout /\ UNCHANGED <<infiniteVars, layoutVars, hostVars, utilVars>>

SpecFaulty == InitFaulty /\ [][NextFaulty]_vars

(* ----- unmounting the component ----- *)
(* the component unmounts: the hook has no cleanup effect and throttle no
   cancel, so the closure of throttle and its timer stay as they are *)
Unmount ==
    /\ mounted
    /\ mounted' = FALSE
    /\ UNCHANGED <<listVars, infiniteVars, layoutVars, sizingThrowsAt, utilVars>>

InitTeardown ==
    /\ items \in ItemSeqs
    /\ itemHeight \in {<<h>> : h \in 1..MaxUniformHeight}
    /\ getItemHeight = <<>>
    /\ containerHeight = MaxViewport
    /\ overscan = MaxOverscan
    /\ estimatedItemHeight = MaxEstimate
    /\ scrollElementAttached = TRUE
    /\ InitHookState
    /\ InitNoInfinite
    /\ InitNoLayout
    /\ InitHost
    /\ InitNoUtil

(* scroll events reach the handler while the component is mounted; the
   timer of throttle fires whether it is mounted or not *)
NextTeardown ==
    \/ \E offset \in 0..MaxScroll :
          mounted /\ ScrollEvent(offset)
            /\ UNCHANGED <<infiniteVars, layoutVars, hostVars, utilVars>>
    \/ ThrottleTimeout /\ UNCHANGED <<infiniteVars, layoutVars, hostVars, utilVars>>
    \/ Unmount

SpecTeardown == InitTeardown /\ [][NextTeardown]_vars

(* ----- measurement reports and item changes, measured sizing ----- *)
(* variant of the updater that starts from the heights of the last render *)
newHeightsFromRenderedState(prev, index, element) ==
    IF element = <<>>
    THEN prev
    ELSE [k \in (DOMAIN heights) \cup {index} |->
             IF k = index THEN element[1] ELSE heights[k]]

(* the state the updater passed to setHeights returns for prev; a call
   without an element queues no update *)
newHeights(prev, index, element) ==
    IF element = <<>>
    THEN prev
    ELSE [k \in (DOMAIN prev) \cup {index} |->
             IF k = index THEN element[1] ELSE prev[k]]

(* two measureItem calls before the next render: the queued updaters run
   in call order, then the hook renders *)
measureItemBatch(index1, element1, index2, element2) ==
    /\ heights' = newHeights(newHeights(heights, index1, element1), index2, element2)
    /\ reported' =
          LET first == IF element1 = <<>> THEN {} ELSE {index1}
              second == IF element2 = <<>> THEN {} ELSE {index2}
          IN  [k \in (DOMAIN reported) \cup first \cup second |->
                  IF k \in second THEN element2[1]
                  ELSE IF k \in first THEN element1[1]
                  ELSE reported[k]]
    /\ UNCHANGED <<items, itemHeight, getItemHeight, containerHeight, overscan,
                   estimatedItemHeight, scrollTop, inThrottle, elementScrollTop,
                   scrollElementAttached>>
    /\ Render

(* item sequences whose items differ from those of ItemSeqs *)
ReplacedItemSeqs == {[j \in 1..n |-> MaxItems + j] : n \in 1..MaxItems}

(* the component renders the hook with another items prop; the hook keeps
   its state *)
SetItems(newItems) ==
    /\ newItems # items
    /\ items' = newItems
    /\ UNCHANGED <<itemHeight, getItemHeight, containerHeight, overscan,
                   estimatedItemHeight, scrollTop, heights, inThrottle,
                   elementScrollTop, scrollElementAttached, reported>>
    /\ Render

InitMeasure ==
    /\ items \in ItemSeqs
    /\ itemHeight = <<>>
    /\ getItemHeight = <<>>
    /\ containerHeight = MaxViewport
    /\ overscan = MaxOverscan
    /\ estimatedItemHeight = MaxEstimate
    /\ scrollElementAttached = TRUE
    /\ InitHookState
    /\ InitNoInfinite
    /\ InitNoLayout
    /\ InitHost
    /\ InitNoUtil

NextMeasure ==
    \/ \E index \in 0..(MaxItems - 1), element \in OptionalElements :
          measureItem(index, element)
            /\ UNCHANGED <<infiniteVars, layoutVars, hostVars, utilVars>>
    \/ \E index1 \in 0..(MaxItems - 1), element1 \in OptionalElements,
          index2 \in 0..(MaxItems - 1), element2 \in OptionalElements :
          measureItemBatch(index1, element1, index2, element2)
            /\ UNCHANGED <<infiniteVars, layoutVars, hostVars, utilVars>>
    \/ \E newItems \in ItemSeqs \cup ReplacedItemSeqs :
          SetItems(newItems) /\ UNCHANGED <<infiniteVars, layoutVars, hostVars, utilVars>>

SpecMeasure == InitMeasure /\ [][NextMeasure]_vars

(* ----- JavaScript numbers that need not be finite ----- *)
Finite(n) == [kind |-> "number", value |-> n]
Infinity == [kind |-> "Infinity", value |-> 0]
NaN == [kind |-> "NaN", value |-> 0]
Undefined == [kind |-> "undefined", value |-> 0]

(* a + b where no operand is negative infinity *)
JsPlus(a, b) ==
    IF a.kind = "number" /\ b.kind = "number" THEN Finite(a.value + b.value)
    ELSE IF a.kind \in {"NaN", "undefined"} \/ b.kind \in {"NaN", "undefined"} THEN NaN
    ELSE Infinity

(* a * k for a finite k >= 0 *)
JsTimes(a, k) ==
    IF a.kind = "number" THEN Finite(a.value * k)
    ELSE IF a.kind = "Infinity" /\ k > 0 THEN Infinity
    ELSE NaN

(* the list hook is not in use *)
InitNoList ==
    /\ estimatedItemHeight = 1
    /\ heights = << >>
    /\ reported = << >>
    /\ visibleRange = [start |-> 0, end |-> 0]
    /\ scrollElementAttached = FALSE
    /\ scrollTop = 0
    /\ inThrottle = FALSE
    /\ elementScrollTop = 0

(* ----- useMasonryVirtualization ----- *)
(* columns: Math.floor((containerWidth + gap) / (columnWidth + gap)) *)
ColumnsFor(width, colWidth, g) == (width + g) \div (colWidth + g)

masonryColumns == ColumnsFor(containerWidth, columnWidth, gap)

RECURSIVE MinOf(_)
(* Math.min(...a) for a non-empty array of finite numbers *)
MinOf(a) == IF Len(a) = 1 THEN a[1] ELSE Min(a[1], MinOf(Tail(a)))

(* variant that breaks ties towards the last column *)
shortestColumnIndexLast(columnHeights) ==
    IF Len(columnHeights) = 0
    THEN -1
    ELSE (CHOOSE c \in 1..Len(columnHeights) :
             /\ columnHeights[c] = MinOf(columnHeights)
             /\ \A d \in (c + 1)..Len(columnHeights) :
                   columnHeights[d] # MinOf(columnHeights)) - 1

(* columnHeights.indexOf(Math.min(...columnHeights)): Math.min() of no
   arguments is Infinity, which indexOf does not find *)
shortestColumnIndex(columnHeights) ==
    IF Len(columnHeights) = 0
    THEN -1
    ELSE (CHOOSE c \in 1..Len(columnHeights) :
             /\ columnHeights[c] = MinOf(columnHeights)
             /\ \A d \in 1..(c - 1) : columnHeights[d] # MinOf(columnHeights)) - 1

RECURSIVE PackLoopWithoutGap(_, _, _, _, _, _, _)
(* variant in which a column grows by the height of the placed item only *)
PackLoopWithoutGap(h, index, columnHeights, minusOne, newPositions, colWidth, g) ==
    IF index >= Len(h)
    THEN newPositions
    ELSE LET height == h[index + 1]
             shortest == shortestColumnIndex(columnHeights)
             x == shortest * (colWidth + g)
             y == IF shortest = -1 THEN minusOne ELSE Finite(columnHeights[shortest + 1])
         IN  PackLoopWithoutGap(h, index + 1,
                      IF shortest = -1
                      THEN columnHeights
                      ELSE [columnHeights EXCEPT ![shortest + 1] = @ + height],
                      IF shortest = -1
                      THEN JsPlus(minusOne, Finite(height))
                      ELSE minusOne,
                      Append(newPositions, [x |-> x, y |-> y, height |-> height]),
                      colWidth, g)

RECURSIVE PackLoop(_, _, _, _, _, _, _)
(* items.forEach of the position effect from item `index` on: h[index + 1]
   is getItemHeight(item, index), minusOne the property columnHeights[-1] *)
PackLoop(h, index, columnHeights, minusOne, newPositions, colWidth, g) ==
    IF index >= Len(h)
    THEN newPositions
    ELSE LET height == h[index + 1]
             shortest == shortestColumnIndex(columnHeights)
             x == shortest * (colWidth + g)
             y == IF shortest = -1 THEN minusOne ELSE Finite(columnHeights[shortest + 1])
         IN  PackLoop(h, index + 1,
                      IF shortest = -1
                      THEN columnHeights
                      ELSE [columnHeights EXCEPT ![shortest + 1] = @ + height + g],
                      IF shortest = -1
                      THEN JsPlus(minusOne, Finite(height + g))
                      ELSE minusOne,
                      Append(newPositions, [x |-> x, y |-> y, height |-> height]),
                      colWidth, g)

(* newPositions of the position effect for the heights h of the items *)
PackPositions(h, cols, colWidth, g) ==
    PackLoop(h, 0, [c \in 1..cols |-> 0], Undefined, << >>, colWidth, g)

(* variant in which a placed item replaces the height of its column *)
GrowShortestResetting(columnHeights, amount) ==
    IF shortestColumnIndex(columnHeights) = -1
    THEN columnHeights
    ELSE [columnHeights EXCEPT ![shortestColumnIndex(columnHeights) + 1] = amount]

(* columnHeights[shortestColumnIndex] += height + gap, on the array *)
GrowShortest(columnHeights, amount) ==
    IF shortestColumnIndex(columnHeights) = -1
    THEN columnHeights
    ELSE [columnHeights EXCEPT ![shortestColumnIndex(columnHeights) + 1] = @ + amount]

RECURSIVE Zeros(_)
(* new Array(n).fill(0) *)
Zeros(n) == IF n <= 0 THEN << >> ELSE Append(Zeros(n - 1), 0)

RECURSIVE ColumnHeightsLoop(_, _, _, _, _)
(* the values columnHeights takes in items.forEach of the position effect
   from item `index` on, appended to trace *)
ColumnHeightsLoop(h, index, columnHeights, trace, g) ==
    IF index >= Len(h)
    THEN trace
    ELSE ColumnHeightsLoop(h, index + 1,
                           GrowShortest(columnHeights, h[index + 1] + g),
                           Append(trace, GrowShortest(columnHeights, h[index + 1] + g)),
                           g)

(* columnHeights before the first iteration of the position effect and
   after each iteration *)
ColumnHeightsTrace(h, cols, g) ==
    ColumnHeightsLoop(h, 0, Zeros(cols), <<Zeros(cols)>>, g)

(* items.map of getItemHeight(item, index) *)
masonryHeights == [j \in 1..Len(items) |-> getItemHeight[1][j]]

RECURSIVE MaxBottom(_)
(* Math.max(...a) over pos.y + pos.height; a non-number makes it NaN *)
MaxBottom(a) ==
    LET bottom == JsPlus(a[1].y, Finite(a[1].height))
    IN  IF Len(a) = 1 THEN bottom
        ELSE LET rest == MaxBottom(Tail(a))
             IN  IF bottom.kind # "number" \/ rest.kind # "number" THEN NaN
                 ELSE Finite(Max(bottom.value, rest.value))

(* variant that keeps the gap below the last item of a column *)
TotalHeightOfWithGap(pos, g) ==
    IF Len(pos) = 0 THEN Finite(0) ELSE JsPlus(MaxBottom(pos), Finite(g))

(* totalHeight of the masonry hook for the positions pos *)
TotalHeightOf(pos, g) ==
    IF Len(pos) = 0 THEN Finite(0) ELSE MaxBottom(pos)

masonryTotalHeight == TotalHeightOf(positions, gap)

(* visibleItems of the masonry hook, as the set of indices it returns; the
   hook takes no containerHeight, the name resolves to a global binding *)
masonryVisibleItems ==
    LET containerBottom == scrollTop + globalContainerHeight[1]
    IN  {index \in 0..(Len(items) - 1) :
            /\ index < Len(positions)
            /\ positions[index + 1].y.kind = "number"
            /\ positions[index + 1].y.value + positions[index + 1].height
                  >= scrollTop - overscan * 100
            /\ positions[index + 1].y.value <= containerBottom + overscan * 100}

(* a render of the masonry hook throws a ReferenceError when it evaluates
   containerHeight and no such binding exists *)
MasonryRenderRaises == globalContainerHeight = << >>

InitMasonry ==
    /\ items \in ItemSeqs
    /\ getItemHeight \in SizingFunctions(Len(items))
    /\ columnWidth \in 1..MaxColumnWidth
    /\ containerWidth \in 0..MaxContainerWidth
    /\ gap \in 0..MaxGap
    /\ overscan = MaxOverscan
    /\ globalContainerHeight \in {<< >>, <<MaxViewport>>}
    /\ positions = << >>
    /\ masonryRaised = MasonryRenderRaises
    /\ positionsPending = ~MasonryRenderRaises
    /\ itemHeight = << >>
    /\ containerHeight = 0
    /\ InitNoList
    /\ InitHost
    /\ InitNoUtil
    /\ InitNoInfinite
    /\ InitNoGrid

(* the position effect, run after a render whose dependencies changed *)
PositionEffect ==
    /\ positionsPending
    /\ ~masonryRaised
    /\ positions' = PackPositions(masonryHeights, masonryColumns, columnWidth, gap)
    /\ positionsPending' = FALSE
    /\ UNCHANGED <<listVars, infiniteVars, hostVars, utilVars, gridVars, columnWidth,
                   containerWidth,
                   gap, globalContainerHeight, masonryRaised>>

(* the component renders the hook with other items; positions keep their
   value until the effect has run *)
MasonrySetItems(newItems, newGetItemHeight) ==
    /\ ~masonryRaised
    /\ ~positionsPending
    /\ <<newItems, newGetItemHeight>> # <<items, getItemHeight>>
    /\ items' = newItems
    /\ getItemHeight' = newGetItemHeight
    /\ positionsPending' = TRUE
    /\ UNCHANGED <<itemHeight, containerHeight, overscan, estimatedItemHeight,
                   scrollTop, heights, visibleRange, inThrottle, elementScrollTop,
                   scrollElementAttached, reported>>
    /\ UNCHANGED <<infiniteVars, hostVars, utilVars, gridVars, columnWidth, containerWidth, gap,
                   positions, globalContainerHeight, masonryRaised>>

(* the component renders the hook with another containerWidth; the effect
   runs when the column count changed *)
MasonryResize(width) ==
    /\ ~masonryRaised
    /\ ~positionsPending
    /\ width # containerWidth
    /\ containerWidth' = width
    /\ positionsPending' = (ColumnsFor(width, columnWidth, gap) # masonryColumns)
    /\ UNCHANGED <<listVars, infiniteVars, hostVars, utilVars, gridVars, columnWidth, gap,
                   positions,
                   globalContainerHeight, masonryRaised>>

NextMasonry ==
    \/ PositionEffect
    \/ \E newItems \in ItemSeqs :
          \E newGetItemHeight \in SizingFunctions(Len(newItems)) :
             MasonrySetItems(newItems, newGetItemHeight)
    \/ \E width \in 0..MaxContainerWidth : MasonryResize(width)

SpecMasonry == InitMasonry /\ [][NextMasonry]_vars

(* ----- useGridVirtualization ----- *)
(* variant of cols that rounds the computed count up *)
GridColsCeil(cols, width, cellWidth, g) ==
    IF cols # << >> /\ cols[1] # 0
    THEN cols[1]
    ELSE (width + g + cellWidth + g - 1) \div (cellWidth + g)

(* cols: columns || Math.floor((containerWidth + gap) / (itemWidth + gap)) *)
GridCols(cols, width, cellWidth, g) ==
    IF cols # << >> /\ cols[1] # 0
    THEN cols[1]
    ELSE (width + g) \div (cellWidth + g)

(* rows: Math.ceil(items.length / cols) for cols >= 0 *)
GridRows(count, cols) ==
    IF cols = 0
    THEN IF count = 0 THEN NaN ELSE Infinity
    ELSE Finite((count + cols - 1) \div cols)

gridDimensions ==
    LET cols == GridCols(columns, containerWidth, itemWidth, gap)
        rows == GridRows(Len(items), cols)
    IN  [cols |-> cols,
         rows |-> rows,
         totalWidth |-> cols * itemWidth + (cols - 1) * gap,
         totalHeight |-> JsPlus(JsTimes(rows, itemHeight[1]),
                                JsTimes(JsPlus(rows, Finite(-1)), gap))]

(* Math.min(a, k) for a finite k; a NaN argument makes it NaN *)
JsMin(a, k) ==
    IF a.kind = "number" THEN Finite(Min(a.value, k))
    ELSE IF a.kind = "Infinity" THEN Finite(k)
    ELSE NaN

(* visibleRange of the grid hook *)
gridVisibleRange ==
    [startRow |-> Max(0, (scrollTop \div (itemHeight[1] + gap)) - overscan),
     endRow |-> JsMin(JsPlus(gridDimensions.rows, Finite(-1)),
                      ((scrollTop + containerHeight) \div (itemHeight[1] + gap)) + overscan),
     startCol |-> Max(0, (scrollLeft \div (itemWidth + gap)) - overscan),
     endCol |-> Min(gridDimensions.cols - 1,
                    ((scrollLeft + containerWidth) \div (itemWidth + gap)) + overscan)]

(* variant of visibleItems that keeps the cells past the last item *)
gridVisibleItemsUnfiltered ==
    LET cols == gridDimensions.cols
        range == gridVisibleRange
        rowCount == IF range.endRow.kind = "number"
                    THEN Max(0, range.endRow.value - range.startRow + 1)
                    ELSE 0
        colCount == Max(0, range.endCol - range.startCol + 1)
        cell(k) == LET row == range.startRow + ((k - 1) \div colCount)
                       col == range.startCol + ((k - 1) % colCount)
                   IN  [index |-> row * cols + col,
                        row |-> row,
                        col |-> col,
                        x |-> col * (itemWidth + gap),
                        y |-> row * (itemHeight[1] + gap)]
    IN  [k \in 1..(rowCount * colCount) |-> cell(k)]

(* visibleItems of the grid hook: the cells of the two nested loops in the
   order they are pushed; the loop over rows does not run when endRow is
   NaN; the item of a cell is items[index] *)
gridVisibleItems ==
    LET cols == gridDimensions.cols
        range == gridVisibleRange
        rowCount == IF range.endRow.kind = "number"
                    THEN Max(0, range.endRow.value - range.startRow + 1)
                    ELSE 0
        colCount == Max(0, range.endCol - range.startCol + 1)
        cell(k) == LET row == range.startRow + ((k - 1) \div colCount)
                       col == range.startCol + ((k - 1) % colCount)
                   IN  [index |-> row * cols + col,
                        row |-> row,
                        col |-> col,
                        x |-> col * (itemWidth + gap),
                        y |-> row * (itemHeight[1] + gap)]
    IN  SelectSeq([k \in 1..(rowCount * colCount) |-> cell(k)],
                  LAMBDA c : c.index < Len(items))

InitGrid ==
    /\ items \in ItemSeqs
    /\ itemWidth \in 1..MaxItemWidth
    /\ itemHeight = <<1>>
    /\ containerWidth \in 0..MaxContainerWidth
    /\ containerHeight = MaxViewport
    /\ columns \in {<< >>} \cup {<<c>> : c \in 0..MaxColumns}
    /\ gap \in 0..MaxGap
    /\ overscan \in 0..MaxOverscan
    /\ getItemHeight = << >>
    /\ scrollLeft = 0
    /\ InitNoList
    /\ InitHost
    /\ InitNoUtil
    /\ InitNoInfinite
    /\ InitNoMasonry

(* handleScroll of the grid hook behind throttle(func, 16) *)
GridScrollEvent(top, left) ==
    /\ IF inThrottle
       THEN UNCHANGED <<scrollTop, scrollLeft, inThrottle>>
       ELSE /\ scrollTop' = top
            /\ scrollLeft' = left
            /\ inThrottle' = TRUE
    /\ UNCHANGED <<items, itemHeight, getItemHeight, containerHeight, overscan,
                   estimatedItemHeight, heights, visibleRange, elementScrollTop,
                   scrollElementAttached, reported>>
    /\ UNCHANGED <<infiniteVars, hostVars, utilVars, masonryVars, itemWidth, columns>>

NextGrid ==
    \/ \E top \in 0..MaxScroll, left \in 0..MaxScroll : GridScrollEvent(top, left)
    \/ ThrottleTimeout /\ UNCHANGED <<infiniteVars, layoutVars, hostVars, utilVars>>

SpecGrid == InitGrid /\ [][NextGrid]_vars

(* ----- useInfiniteVirtualization ----- *)
(* items.length - visibleRange.end <= loadMoreThreshold *)
nearEnd == Len(items) - visibleRange.end <= loadMoreThreshold

(* variant of shouldLoadMore that does not look at isFetchingNextPage *)
shouldLoadMoreIgnoringFlight == hasNextPage /\ nearEnd

shouldLoadMore == hasNextPage /\ ~isFetchingNextPage /\ nearEnd

(* the dependency array of the effect *)
effectDeps ==
    <<hasNextPage, isFetchingNextPage, Len(items), visibleRange.end,
      loadMoreThreshold, fetchNextPage>>

(* variant of the effect without a dependency array: its body runs after
   every render *)
LoadMoreEffectEveryRender ==
    /\ effectDeps' # effectDeps => effectRuns < MaxEffectRuns
    /\ effectRuns' = IF effectDeps' # effectDeps THEN effectRuns + 1 ELSE effectRuns
    /\ fired' = (shouldLoadMore' /\ fetchNextPage' # "undefined")
    /\ fetchCalls' = IF fired' THEN fetchCalls + 1 ELSE fetchCalls
    /\ crossings' = IF ~nearEnd /\ nearEnd' THEN crossings + 1 ELSE crossings
    /\ fetchCalls' <= MaxEffectRuns

(* the effect, after the render that an event caused: it runs when a
   dependency changed and calls fetchNextPage when shouldLoadMore holds *)
LoadMoreEffect ==
    IF effectDeps' # effectDeps
    THEN /\ effectRuns < MaxEffectRuns
         /\ effectRuns' = effectRuns + 1
         /\ fired' = (shouldLoadMore' /\ fetchNextPage' # "undefined")
         /\ fetchCalls' = IF fired' THEN fetchCalls + 1 ELSE fetchCalls
         /\ crossings' = IF ~nearEnd /\ nearEnd' THEN crossings + 1 ELSE crossings
    ELSE UNCHANGED <<fetchCalls, effectRuns, fired, crossings>>

(* first render of useInfiniteVirtualization, on a list of uniform height 1
   in a viewport of height 1 without overscan, so that each scroll offset
   moves visibleRange.end: the effect runs once on mount *)
InitInfinite ==
    /\ items \in ItemSeqs
    /\ itemHeight = <<1>>
    /\ getItemHeight = <<>>
    /\ containerHeight = 1
    /\ overscan = 0
    /\ estimatedItemHeight = 1
    /\ scrollElementAttached = TRUE
    /\ InitHookState
    /\ InitNoLayout
    /\ InitHost
    /\ InitNoUtil
    /\ hasNextPage \in BOOLEAN
    /\ isFetchingNextPage \in BOOLEAN
    /\ loadMoreThreshold \in 0..MaxThreshold
    /\ fetchNextPage \in CallbackIds
    /\ effectRuns = 1
    /\ fired = (shouldLoadMore /\ fetchNextPage # "undefined")
    /\ fetchCalls = IF fired THEN 1 ELSE 0
    /\ crossings = IF nearEnd THEN 1 ELSE 0

(* a scroll event on the list of the infinite hook *)
InfiniteScroll(offset) ==
    /\ ScrollEvent(offset)
    /\ UNCHANGED <<hasNextPage, isFetchingNextPage, loadMoreThreshold, fetchNextPage>>
    /\ UNCHANGED <<layoutVars, hostVars, utilVars>>
    /\ LoadMoreEffect

(* the caller renders the hook again with new items, flags and callback *)
InfiniteRerender(newItems, more, fetching, callback) ==
    /\ items' = newItems
    /\ hasNextPage' = more
    /\ isFetchingNextPage' = fetching
    /\ fetchNextPage' = callback
    /\ UNCHANGED <<itemHeight, getItemHeight, containerHeight, overscan,
                   estimatedItemHeight, scrollTop, heights, inThrottle,
                   elementScrollTop, scrollElementAttached, reported,
                   loadMoreThreshold>>
    /\ UNCHANGED <<layoutVars, hostVars, utilVars>>
    /\ Render
    /\ LoadMoreEffect

NextInfinite ==
    \/ \E offset \in 0..MaxScroll : InfiniteScroll(offset)
    \/ ThrottleTimeout /\ UNCHANGED <<infiniteVars, layoutVars, hostVars, utilVars>>
    \/ \E newItems \in ItemSeqs, more \in BOOLEAN, fetching \in BOOLEAN,
          callback \in CallbackIds :
          InfiniteRerender(newItems, more, fetching, callback)

SpecInfinite == InitInfinite /\ [][NextInfinite]_vars


(* ----- the hooks are not in use ----- *)
InitNoHooks ==
    /\ items = << >>
    /\ itemHeight = << >>
    /\ getItemHeight = << >>
    /\ containerHeight = 0
    /\ overscan = 0
    /\ InitNoList
    /\ InitHost
    /\ InitNoInfinite
    /\ InitNoLayout

hookVars == <<listVars, infiniteVars, layoutVars, hostVars>>

(* Map.set(key, value) and Map.delete(key) on a map kept as a function *)
MapSet(map, key, value) ==
    [k \in (DOMAIN map) \cup {key} |-> IF k = key THEN value ELSE map[k]]
MapDelete(map, key) == [k \in (DOMAIN map) \ {key} |-> map[k]]

(* ----- MemoryManager.createExpiredCache ----- *)
CacheKeys == 1..MaxKeys
CacheValues == 1..MaxValues

(* the handle setTimeout returns: one no pending timeout has *)
FreshTimer == CHOOSE id \in 0..Cardinality(pendingTimeouts) :
                 \A t \in pendingTimeouts : t.id # id

(* clearTimeout(handle) *)
ClearTimeout(pending, handle) == {t \in pending : t.id # handle}

(* variant of set that leaves the timer of an earlier set of the key running *)
CacheSetKeepingTimer(key, value) ==
    /\ cache' = MapSet(cache, key, value)
    /\ pendingTimeouts' =
          pendingTimeouts \cup {[id |-> FreshTimer, key |-> key, at |-> now + ttl]}
    /\ timers' = MapSet(timers, key, FreshTimer)
    /\ liveUntil' = MapSet(liveUntil, key, now + ttl)
    /\ UNCHANGED <<now, ttl>>

(* set(key, value) *)
CacheSet(key, value) ==
    /\ cache' = MapSet(cache, key, value)
    /\ pendingTimeouts' =
          (IF key \in DOMAIN timers
           THEN ClearTimeout(pendingTimeouts, timers[key])
           ELSE pendingTimeouts)
          \cup {[id |-> FreshTimer, key |-> key, at |-> now + ttl]}
    /\ timers' = MapSet(timers, key, FreshTimer)
    /\ liveUntil' = MapSet(liveUntil, key, now + ttl)
    /\ UNCHANGED <<now, ttl>>

(* has(key) *)
CacheHas(key) == key \in DOMAIN cache

(* delete(key) *)
CacheDelete(key) ==
    /\ IF key \in DOMAIN timers
       THEN /\ pendingTimeouts' = ClearTimeout(pendingTimeouts, timers[key])
            /\ timers' = MapDelete(timers, key)
       ELSE UNCHANGED <<pendingTimeouts, timers>>
    /\ cache' = MapDelete(cache, key)
    /\ liveUntil' = MapDelete(liveUntil, key)
    /\ UNCHANGED <<now, ttl>>

(* clear() *)
CacheClear ==
    /\ pendingTimeouts' = {t \in pendingTimeouts :
                              \A k \in DOMAIN timers : timers[k] # t.id}
    /\ timers' = << >>
    /\ cache' = << >>
    /\ liveUntil' = << >>
    /\ UNCHANGED <<now, ttl>>

(* the callback of the timeout t set by set(): it runs once the delay has
   passed *)
CacheTimeout(t) ==
    /\ t \in pendingTimeouts
    /\ t.at <= now
    /\ pendingTimeouts' = pendingTimeouts \ {t}
    /\ cache' = MapDelete(cache, t.key)
    /\ timers' = MapDelete(timers, t.key)
    /\ UNCHANGED <<now, ttl, liveUntil>>

(* a unit of time passes; a timeout that is due runs before time moves on *)
CacheTick ==
    /\ now < MaxTime
    /\ \A t \in pendingTimeouts : t.at > now
    /\ now' = now + 1
    /\ UNCHANGED cacheVars

InitCache ==
    /\ now = 0
    /\ ttl \in 0..MaxTtl
    /\ cache = << >>
    /\ timers = << >>
    /\ pendingTimeouts = {}
    /\ liveUntil = << >>
    /\ InitNoDebounce
    /\ InitNoFrame
    /\ InitNoLazy
    /\ InitNoWorker
    /\ InitNoMonitor
    /\ InitNoHooks

otherThanCache ==
    <<hookVars, debounceVars, frameVars, lazyVars, workerVars, monitorVars>>

NextCache ==
    \/ \E key \in CacheKeys, value \in CacheValues :
          CacheSet(key, value) /\ UNCHANGED otherThanCache
    \/ \E key \in CacheKeys : CacheDelete(key) /\ UNCHANGED otherThanCache
    \/ CacheClear /\ UNCHANGED otherThanCache
    \/ \E t \in pendingTimeouts : CacheTimeout(t) /\ UNCHANGED otherThanCache
    \/ CacheTick /\ UNCHANGED otherThanCache

SpecCache == InitCache /\ [][NextCache]_vars

(* ----- debounce ----- *)
DebounceArgs == 1..MaxArgs

(* the handle setTimeout returns to the debounced function *)
FreshDebounceTimer == CHOOSE id \in 0..Cardinality(debounceTimeouts) :
                         \A t \in debounceTimeouts : t.id # id

(* func.apply(this, args), recorded *)
RunFunc(args) ==
    /\ lastRun' = <<[at |-> now, args |-> args]>>
    /\ runsInBurst' = (IF timeout = << >> THEN 0 ELSE runsInBurst) + 1

(* variant of the debounced function that does not clear the pending timeout *)
executedFunctionKeepingTimer(args) ==
    /\ debounceTimeouts' =
          debounceTimeouts \cup {[id |-> FreshDebounceTimer, at |-> now + wait, args |-> args]}
    /\ timeout' = <<FreshDebounceTimer>>
    /\ IF immediate /\ timeout = << >>
       THEN RunFunc(args)
       ELSE /\ lastRun' = lastRun
            /\ runsInBurst' = IF timeout = << >> THEN 0 ELSE runsInBurst
    /\ lastCall' = <<[at |-> now, args |-> args]>>
    /\ burstFirst' = IF timeout = << >> THEN <<[at |-> now, args |-> args]>> ELSE burstFirst
    /\ UNCHANGED <<now, wait, immediate>>

(* executedFunction(...args): callNow = immediate && !timeout;
   clearTimeout(timeout); timeout = setTimeout(later, wait);
   if (callNow) func.apply(this, args) *)
executedFunction(args) ==
    /\ debounceTimeouts' =
          (IF timeout = << >>
           THEN debounceTimeouts
           ELSE {t \in debounceTimeouts : t.id # timeout[1]})
          \cup {[id |-> FreshDebounceTimer, at |-> now + wait, args |-> args]}
    /\ timeout' = <<FreshDebounceTimer>>
    /\ IF immediate /\ timeout = << >>
       THEN RunFunc(args)
       ELSE /\ lastRun' = lastRun
            /\ runsInBurst' = IF timeout = << >> THEN 0 ELSE runsInBurst
    /\ lastCall' = <<[at |-> now, args |-> args]>>
    /\ burstFirst' = IF timeout = << >> THEN <<[at |-> now, args |-> args]>> ELSE burstFirst
    /\ UNCHANGED <<now, wait, immediate>>

(* later(), the callback of the timeout t: timeout = null;
   if (!immediate) func.apply(this, args) *)
later(t) ==
    /\ t \in debounceTimeouts
    /\ t.at <= now
    /\ debounceTimeouts' = debounceTimeouts \ {t}
    /\ timeout' = << >>
    /\ IF ~immediate
       THEN /\ lastRun' = <<[at |-> now, args |-> t.args]>>
            /\ runsInBurst' = runsInBurst + 1
       ELSE UNCHANGED <<lastRun, runsInBurst>>
    /\ UNCHANGED <<now, wait, immediate, lastCall, burstFirst>>

(* a unit of time passes; a timeout that is due runs before time moves on *)
DebounceTick ==
    /\ now < MaxTime
    /\ \A t \in debounceTimeouts : t.at > now
    /\ now' = now + 1
    /\ UNCHANGED debounceVars

InitDebounce ==
    /\ now = 0
    /\ wait \in 0..MaxWait
    /\ immediate \in BOOLEAN
    /\ timeout = << >>
    /\ debounceTimeouts = {}
    /\ lastCall = << >>
    /\ burstFirst = << >>
    /\ lastRun = << >>
    /\ runsInBurst = 0
    /\ InitNoCache
    /\ InitNoFrame
    /\ InitNoLazy
    /\ InitNoWorker
    /\ InitNoMonitor
    /\ InitNoHooks

otherThanDebounce ==
    <<hookVars, cacheVars, frameVars, lazyVars, workerVars, monitorVars>>

NextDebounce ==
    \/ \E args \in DebounceArgs :
          executedFunction(args) /\ UNCHANGED otherThanDebounce
    \/ \E t \in debounceTimeouts : later(t) /\ UNCHANGED otherThanDebounce
    \/ DebounceTick /\ UNCHANGED otherThanDebounce

SpecDebounce == InitDebounce /\ [][NextDebounce]_vars

(* ----- AnimationFrame ----- *)
FrameCallbacks == 1..MaxCallbacks

(* callbacks.indexOf(callback), 0-based, -1 when absent *)
IndexOf(a, x) ==
    IF \E i \in 1..Len(a) : a[i] = x
    THEN (CHOOSE i \in 1..Len(a) : a[i] = x /\ \A j \in 1..(i - 1) : a[j] # x) - 1
    ELSE -1

(* callbacks.splice(index, 1) *)
Splice1(a, index) == [i \in 1..(Len(a) - 1) |-> IF i <= index THEN a[i] ELSE a[i + 1]]

(* number of elements of a equal to x *)
Occurrences(a, x) == Cardinality({i \in 1..Len(a) : a[i] = x})

(* add(callback): start() runs tick() at once when the loop is stopped, and
   tick() requests a frame after invoking the callbacks *)
FrameAdd(callback) ==
    /\ Len(callbacks) < MaxListed
    /\ isRunning \/ pendingTicks < MaxTicks
    /\ callbacks' = Append(callbacks, callback)
    /\ isRunning' = TRUE
    /\ pendingTicks' = IF isRunning THEN pendingTicks ELSE pendingTicks + 1
    /\ UNCHANGED invokedInFrame

(* remove(callback): stop() clears isRunning and leaves the requested
   frame in place *)
FrameRemove(callback) ==
    /\ callbacks' = IF IndexOf(callbacks, callback) > -1
                    THEN Splice1(callbacks, IndexOf(callbacks, callback))
                    ELSE callbacks
    /\ isRunning' = IF Len(callbacks') = 0 THEN FALSE ELSE isRunning
    /\ UNCHANGED <<pendingTicks, invokedInFrame>>

(* an animation frame: the browser runs every requested () => this.tick();
   each tick returns when the loop is stopped, else invokes every callback
   of the list and requests the next frame *)
Frame ==
    /\ pendingTicks > 0
    /\ invokedInFrame' =
          [c \in FrameCallbacks |->
              IF isRunning THEN pendingTicks * Occurrences(callbacks, c) ELSE 0]
    /\ pendingTicks' = IF isRunning THEN pendingTicks ELSE 0
    /\ UNCHANGED <<callbacks, isRunning>>

InitFrame ==
    /\ callbacks = << >>
    /\ isRunning = FALSE
    /\ pendingTicks = 0
    /\ invokedInFrame = [c \in FrameCallbacks |-> 0]
    /\ now = 0
    /\ InitNoCache
    /\ InitNoDebounce
    /\ InitNoLazy
    /\ InitNoWorker
    /\ InitNoMonitor
    /\ InitNoHooks

otherThanFrame ==
    <<hookVars, now, cacheVars, debounceVars, lazyVars, workerVars, monitorVars>>

NextFrame ==
    \/ \E callback \in FrameCallbacks :
          FrameAdd(callback) /\ UNCHANGED otherThanFrame
    \/ \E callback \in FrameCallbacks :
          FrameRemove(callback) /\ UNCHANGED otherThanFrame
    \/ Frame /\ UNCHANGED otherThanFrame

SpecFrame == InitFrame /\ [][NextFrame]_vars

(* ----- LazyImage on the shared lazyLoader ----- *)
Images == 1..MaxImages
Sources == 1..MaxSources

(* the cleanup of the effect of LazyImage: lazyLoader.disconnect(), which
   disconnects the one observer all images share *)
LazyCleanup(image) == {}

(* a LazyImage (loading lazy, no priority) mounts: the effect sets
   img.dataset.src and calls lazyLoader.observe(img) *)
LazyMount(image, src) ==
    /\ image \notin DOMAIN lazySrc
    /\ lazySrc' = MapSet(lazySrc, image, src)
    /\ observed' = observed \cup {image}
    /\ UNCHANGED loadedSrc

(* the image unmounts: the cleanup runs and the element goes away *)
LazyUnmount(image) ==
    /\ image \in DOMAIN lazySrc
    /\ lazySrc' = MapDelete(lazySrc, image)
    /\ observed' = LazyCleanup(image)
    /\ loadedSrc' = MapDelete(loadedSrc, image)

(* the image is rendered with another src: the cleanup runs, then the
   effect sets img.dataset.src and observes the image again *)
LazyChangeSrc(image, src) ==
    /\ image \in DOMAIN lazySrc
    /\ src # lazySrc[image]
    /\ lazySrc' = MapSet(lazySrc, image, src)
    /\ observed' = LazyCleanup(image) \cup {image}
    /\ UNCHANGED loadedSrc

(* the observer reports the image as intersecting: loadElement(entry.target)
   and unobserve(entry.target) *)
Intersect(image) ==
    /\ image \in observed
    /\ loadedSrc' = MapSet(loadedSrc, image, lazySrc[image])
    /\ observed' = observed \ {image}
    /\ UNCHANGED lazySrc

InitLazy ==
    /\ lazySrc = << >>
    /\ observed = {}
    /\ loadedSrc = << >>
    /\ now = 0
    /\ InitNoCache
    /\ InitNoDebounce
    /\ InitNoFrame
    /\ InitNoWorker
    /\ InitNoMonitor
    /\ InitNoHooks

otherThanLazy ==
    <<hookVars, now, cacheVars, debounceVars, frameVars, workerVars, monitorVars>>

NextLazy ==
    \/ \E image \in Images, src \in Sources :
          LazyMount(image, src) /\ UNCHANGED otherThanLazy
    \/ \E image \in Images :
          LazyUnmount(image) /\ UNCHANGED otherThanLazy
    \/ \E image \in Images, src \in Sources :
          LazyChangeSrc(image, src) /\ UNCHANGED otherThanLazy
    \/ \E image \in Images :
          Intersect(image) /\ UNCHANGED otherThanLazy

SpecLazy == InitLazy /\ [][NextLazy]_vars

(* ----- service worker: analytics sync and performance measurements ----- *)
Measurements == 1..MaxMeasurements
Requests == 1..MaxRequests

RECURSIVE SortedSeq(_)
(* cache.keys(): the requests of the set S in the order of their insertion,
   taken to be the order of their numbers *)
SortedSeq(S) ==
    IF S = {} THEN << >>
    ELSE LET least == CHOOSE x \in S : \A y \in S : x <= y
         IN  <<least>> \o SortedSeq(S \ {least})

(* queuePerformanceData(data): cache.put under the URL /analytics/performance
   in the cache 'performance-queue'; Cache.put rejects a request whose
   method is not GET, so whether the entry is stored is left open *)
queuePerformanceData(data, stored) ==
    /\ handed' = handed \cup {data}
    /\ performanceQueue' = IF stored THEN <<data>> ELSE performanceQueue

(* the message handler for PERFORMANCE_MEASURE: queuePerformanceData when
   offline, else sendPerformanceData, which queues when its fetch rejects *)
Measure(data, fetched, stored) ==
    /\ data \notin handed \cup delivered
    /\ IF online /\ fetched
       THEN /\ delivered' = delivered \cup {data}
            /\ UNCHANGED <<handed, performanceQueue>>
       ELSE /\ queuePerformanceData(data, stored)
            /\ UNCHANGED delivered
    /\ UNCHANGED <<online, analyticsQueue, syncing, syncRemaining, syncSnapshot,
                   syncSucceeded, syncFailed>>

(* the network goes away or comes back *)
NetworkChange ==
    /\ online' = ~online
    /\ UNCHANGED <<performanceQueue, analyticsQueue, syncing, syncRemaining,
                   syncSnapshot, syncSucceeded, syncFailed, handed, delivered>>

(* the sync event with tag analytics-sync: syncAnalytics opens the cache
   'analytics-queue' and takes its keys *)
SyncStart ==
    /\ ~syncing \/ syncRemaining = << >>
    /\ syncing' = TRUE
    /\ syncRemaining' = SortedSeq(analyticsQueue)
    /\ syncSnapshot' = analyticsQueue
    /\ syncSucceeded' = {}
    /\ syncFailed' = {}
    /\ UNCHANGED <<online, performanceQueue, analyticsQueue, handed, delivered>>

(* variant of the loop in which a rejected fetch ends the pass *)
SyncFetchStoppingOnFailure(fetched) ==
    /\ syncing
    /\ syncRemaining # << >>
    /\ fetched => online
    /\ IF fetched
       THEN /\ analyticsQueue' = analyticsQueue \ {Head(syncRemaining)}
            /\ syncSucceeded' = syncSucceeded \cup {Head(syncRemaining)}
            /\ syncRemaining' = Tail(syncRemaining)
            /\ UNCHANGED syncFailed
       ELSE /\ syncFailed' = syncFailed \cup {Head(syncRemaining)}
            /\ syncRemaining' = << >>
            /\ UNCHANGED <<analyticsQueue, syncSucceeded>>
    /\ UNCHANGED <<online, performanceQueue, syncing, syncSnapshot, handed, delivered>>

(* one iteration of the loop of syncAnalytics: fetch(request), then
   cache.delete(request) when the fetch resolved; a rejection is caught and
   the loop goes on.  A fetch rejects when offline and may reject online. *)
SyncFetch(fetched) ==
    /\ syncing
    /\ syncRemaining # << >>
    /\ fetched => online
    /\ IF fetched
       THEN /\ analyticsQueue' = analyticsQueue \ {Head(syncRemaining)}
            /\ syncSucceeded' = syncSucceeded \cup {Head(syncRemaining)}
            /\ syncRemaining' = Tail(syncRemaining)
            /\ UNCHANGED syncFailed
       ELSE /\ syncFailed' = syncFailed \cup {Head(syncRemaining)}
            /\ syncRemaining' = Tail(syncRemaining)
            /\ UNCHANGED <<analyticsQueue, syncSucceeded>>
    /\ UNCHANGED <<online, performanceQueue, syncing, syncSnapshot, handed, delivered>>

(* the cache 'analytics-queue' is origin storage: what it holds when the
   worker starts was put there outside the worker *)
InitWorker ==
    /\ online \in BOOLEAN
    /\ performanceQueue = << >>
    /\ analyticsQueue \in SUBSET Requests
    /\ syncing = FALSE
    /\ syncRemaining = << >>
    /\ syncSnapshot = {}
    /\ syncSucceeded = {}
    /\ syncFailed = {}
    /\ handed = {}
    /\ delivered = {}
    /\ now = 0
    /\ InitNoCache
    /\ InitNoDebounce
    /\ InitNoFrame
    /\ InitNoLazy
    /\ InitNoMonitor
    /\ InitNoHooks

otherThanWorker ==
    <<hookVars, now, cacheVars, debounceVars, frameVars, lazyVars, monitorVars>>

NextWorker ==
    \/ \E data \in Measurements, fetched \in BOOLEAN, stored \in BOOLEAN :
          Measure(data, fetched, stored) /\ UNCHANGED otherThanWorker
    \/ NetworkChange /\ UNCHANGED otherThanWorker
    \/ SyncStart /\ UNCHANGED otherThanWorker
    \/ \E fetched \in BOOLEAN : SyncFetch(fetched) /\ UNCHANGED otherThanWorker

SpecWorker == InitWorker /\ [][NextWorker]_vars

(* the browser fires the sync event again and again, the network comes
   back after it went away, and a fetch tried again and again while online
   resolves at some time *)
SpecWorkerLive ==
    /\ SpecWorker
    /\ WF_vars(SyncStart /\ UNCHANGED otherThanWorker)
    /\ WF_vars(\E fetched \in BOOLEAN : SyncFetch(fetched) /\ UNCHANGED otherThanWorker)
    /\ SF_vars(SyncFetch(TRUE) /\ UNCHANGED otherThanWorker)
    /\ WF_vars(~online /\ NetworkChange /\ UNCHANGED otherThanWorker)

(* ----- scripts/performance-monitor.js: PerformanceMonitor ----- *)
(* the default thresholds of the constructor; scores in percent, times in
   milliseconds, cumulative-layout-shift in tenths *)
DefaultThresholds ==
    [name \in {"performance", "accessibility", "best-practices", "seo",
               "first-contentful-paint", "largest-contentful-paint", "speed-index",
               "interactive", "cumulative-layout-shift"} |->
        CASE name \in {"performance", "accessibility", "best-practices", "seo"} -> 90
          [] name = "first-contentful-paint" -> 2000
          [] name = "largest-contentful-paint" -> 2500
          [] name \in {"speed-index", "interactive"} -> 3000
          [] name = "cumulative-layout-shift" -> 1]

(* { ...a, ...b } *)
Spread(a, b) ==
    [name \in (DOMAIN a) \cup (DOMAIN b) |-> IF name \in DOMAIN b THEN b[name] ELSE a[name]]

(* config.thresholds as a map for the inner spread: spreading undefined
   adds nothing *)
SuppliedMap(cfg) == IF cfg = << >> THEN << >> ELSE cfg[1]

(* this.config.thresholds after the constructor: the property thresholds
   is { defaults, ...config.thresholds }, and the final ...config then
   assigns every own property of config, thresholds included *)
constructorThresholds(cfg) ==
    IF cfg = << >>
    THEN Spread(DefaultThresholds, SuppliedMap(cfg))
    ELSE cfg[1]

(* the thresholds a caller passes: a map over some of these names, as the
   CLI passes one built from the environment *)
SuppliedValues ==
    [name \in {"performance", "first-contentful-paint"} |->
        IF name = "performance" THEN {80} ELSE {2000, 1500}]

SuppliedThresholds ==
    UNION {[S -> UNION {SuppliedValues[name] : name \in S}] :
              S \in SUBSET (DOMAIN SuppliedValues)}

ThresholdConfigs ==
    {<< >>} \cup {<<map>> : map \in {f \in SuppliedThresholds :
                                        \A name \in DOMAIN f : f[name] \in SuppliedValues[name]}}

metricsToCheck ==
    {"first-contentful-paint", "largest-contentful-paint", "speed-index",
     "interactive", "cumulative-layout-shift"}

(* a threshold that is undefined or 0 is falsy *)
Truthy(map, name) == name \in DOMAIN map /\ map[name] # 0

(* the categories whose score * 100 is below the threshold *)
categoryIssues(report) ==
    {category \in DOMAIN report.categories :
        /\ Truthy(thresholds, category)
        /\ report.categories[category] < thresholds[category]}

(* the checked metrics whose numericValue exceeds the threshold *)
exceeding(report) ==
    {metric \in metricsToCheck :
        /\ metric \in DOMAIN report.audits
        /\ Truthy(thresholds, metric)
        /\ report.audits[metric] > thresholds[metric]}

(* severity critical: value > threshold * 1.5 *)
critical(report) ==
    {metric \in exceeding(report) : 2 * report.audits[metric] > 3 * thresholds[metric]}

(* analyzeResults(report) *)
analyzeResults(report) ==
    [issues |-> categoryIssues(report) \cup critical(report),
     warnings |-> exceeding(report) \ critical(report),
     hasIssues |-> categoryIssues(report) \cup critical(report) # {}]

(* the reports of the audits: the score * 100 of the categories and the
   numericValue of some audits; the category performance is always there *)
ScoreValues == {79, 89, 90}
MetricValues == {2000, 2001, 3001}
Reports ==
    {[categories |-> c, audits |-> a] :
        c \in UNION {[S -> ScoreValues] :
                        S \in {{"performance"}, {"performance", "accessibility"}}},
        a \in UNION {[S -> MetricValues] :
                        S \in SUBSET {"first-contentful-paint", "speed-index"}}}

(* runAudit(): analysis = analyzeResults(report);
   if (analysis.hasIssues) await sendAlert(analysis, timestamp) *)
runAudit(report) ==
    /\ audits < MaxAudits
    /\ audits' = audits + 1
    /\ lastReport' = <<report>>
    /\ issues' = analyzeResults(report).issues
    /\ warnings' = analyzeResults(report).warnings
    /\ alerted' = analyzeResults(report).hasIssues
    /\ UNCHANGED <<configThresholds, thresholds>>

InitMonitor ==
    /\ configThresholds \in ThresholdConfigs
    /\ thresholds = constructorThresholds(configThresholds)
    /\ audits = 0
    /\ lastReport = << >>
    /\ issues = {}
    /\ warnings = {}
    /\ alerted = FALSE
    /\ now = 0
    /\ InitNoCache
    /\ InitNoDebounce
    /\ InitNoFrame
    /\ InitNoLazy
    /\ InitNoWorker
    /\ InitNoHooks

otherThanMonitor ==
    <<hookVars, now, cacheVars, debounceVars, frameVars, lazyVars, workerVars>>

NextMonitor ==
    \E report \in Reports :
       runAudit(report) /\ UNCHANGED otherThanMonitor

SpecMonitor == InitMonitor /\ [][NextMonitor]_vars

(* ----- properties of the range computation ----- *)
itemCount == Len(items)
extent(i) == itemHeights[i + 1]
prefixSum(i) == SumSeq(Slice(itemHeights, 0, i))
NonNegativeExtents == \A i \in 0..(itemCount - 1) : extent(i) >= 0
InRange(i) == visibleRange.start <= i /\ i <= visibleRange.end

(* C1, as claimed: with non-negative extents and a scroll offset in
   [0, totalExtent], every index whose closed interval
   [prefixSum(i), prefixSum(i) + extent(i)] meets the closed viewport
   [scrollTop, scrollTop + containerHeight] lies inside {start, end}. *)
C1_ClosedCoverage ==
    (NonNegativeExtents /\ scrollTop <= totalHeight) =>
        \A i \in 0..(itemCount - 1) :
            (prefixSum(i) <= scrollTop + containerHeight
                /\ prefixSum(i) + extent(i) >= scrollTop) => InRange(i)

(* C1, amended: with non-negative extents and a scroll offset in
   [0, totalExtent], every index whose leading edge is at or before the end
   of the viewport and whose trailing edge is strictly after the scroll
   offset lies inside {start, end}. *)
C1_Coverage ==
    (NonNegativeExtents /\ scrollTop <= totalHeight) =>
        \A i \in 0..(itemCount - 1) :
            (prefixSum(i) <= scrollTop + containerHeight
                /\ prefixSum(i) + extent(i) > scrollTop) => InRange(i)

(* a scrolled list whose window starts after index 0 and holds an item that
   overlaps the viewport, while the item before the window ends exactly at
   the scroll offset *)
C1_Witness ==
    /\ NonNegativeExtents
    /\ scrollTop > 0
    /\ scrollTop < totalHeight
    /\ visibleRange.start > 0
    /\ prefixSum(visibleRange.start) = scrollTop
    /\ \E i \in 0..(itemCount - 1) :
          /\ prefixSum(i) <= scrollTop + containerHeight
          /\ prefixSum(i) + extent(i) > scrollTop
          /\ InRange(i)

(* C2, as claimed: for n items of uniform height h > 0 the range is
   start = max(0, floor(s/h) - k), end = min(n-1, floor((s+v)/h) + k). *)
C2_UniformClosedForm ==
    (IsNumber(itemHeight) /\ itemHeight[1] > 0) =>
        /\ visibleRange.start =
              Max(0, (scrollTop \div itemHeight[1]) - overscan)
        /\ visibleRange.end =
              Min(itemCount - 1,
                  ((scrollTop + containerHeight) \div itemHeight[1]) + overscan)

(* the indices whose leading edge is before scrollTop + containerHeight *)
LeadingBeforeViewportEnd ==
    {i \in 0..(itemCount - 1) : prefixSum(i) < scrollTop + containerHeight}
LastOf(S) == CHOOSE i \in S : \A j \in S : j <= i

(* C3, as claimed: end = min(itemCount - 1, L + overscan), L the last index
   whose leading edge is before scrollTop + containerHeight. *)
C3_EndWidenedByOverscanOnly ==
    (NonNegativeExtents /\ LeadingBeforeViewportEnd # {}) =>
        visibleRange.end =
            Min(itemCount - 1, LastOf(LeadingBeforeViewportEnd) + overscan)

(* C4: for itemCount >= 1 the range satisfies
   0 <= start <= end <= itemCount - 1; for itemCount = 0 the range is empty
   (start > end) and visibleItems is the empty sequence. *)
C4_RangeWellFormed ==
    /\ itemCount >= 1 =>
          /\ 0 <= visibleRange.start
          /\ visibleRange.start <= visibleRange.end
          /\ visibleRange.end <= itemCount - 1
    /\ itemCount = 0 =>
          /\ visibleRange.start > visibleRange.end
          /\ visibleItems = <<>>

(* a scrolled list whose window starts after index 0 and whose end is
   clamped to the last index by the overscan widening *)
C4_Witness ==
    /\ itemCount >= 2
    /\ scrollTop > 0
    /\ overscan > 0
    /\ visibleRange.start > 0
    /\ visibleRange.end = itemCount - 1
    /\ Len(visibleItems) = visibleRange.end - visibleRange.start + 1

(* C5: for a scroll offset in [0, totalExtent], the spacer offset
   offsetY = prefixSum(start) is at most the scroll offset. *)
C5_StartOffsetAtMostScroll ==
    scrollTop <= totalHeight =>
        /\ offsetY = prefixSum(visibleRange.start)
        /\ offsetY <= scrollTop

(* a scrolled list whose window starts after index 0 at a positive offset *)
C5_Witness ==
    /\ scrollTop > 0
    /\ scrollTop <= totalHeight
    /\ visibleRange.start > 0
    /\ offsetY > 0

(* C6, as claimed: with extents and overscan fixed, a scroll from s1 to
   s2 >= s1, both in [0, totalExtent], never decreases start. *)
C6_StartMonotone ==
    [][(scrollTop <= scrollTop' /\ scrollTop' <= totalHeight)
          => visibleRange.start <= visibleRange'.start]_vars

(* C10, as claimed: once a burst of scroll events is over (the throttle
   timer has expired and no event is pending), the scroll offset state
   equals the offset carried by the last event. *)
C10_FinalEventApplied ==
    ~inThrottle => scrollTop = elementScrollTop

(* ----- properties of the size model ----- *)
(* the extent the claim gives index i: measured, else sizing function, else
   uniform height, else estimate *)
MeasuredFirstExtent(i) ==
    IF i \in DOMAIN heights THEN heights[i]
    ELSE IF getItemHeight # <<>> THEN getItemHeight[1][i + 1]
    ELSE IF IsNumber(itemHeight) THEN itemHeight[1]
    ELSE estimatedItemHeight

(* uniform height, else sizing function, else non-zero measured height, else
   estimate *)
UniformFirstExtent(i) ==
    IF IsNumber(itemHeight) THEN itemHeight[1]
    ELSE IF getItemHeight # <<>> THEN getItemHeight[1][i + 1]
    ELSE IF i \in DOMAIN heights /\ heights[i] # 0 THEN heights[i]
    ELSE estimatedItemHeight

(* C7, as claimed: the extent used for index i is the measured height if one
   exists, otherwise the sizing function's value, otherwise the uniform
   height, otherwise the estimate. *)
C7_MeasuredFirst ==
    \A i \in 0..(itemCount - 1) : extent(i) = MeasuredFirstExtent(i)

(* C7, amended: the extent used for index i in the range, total-extent and
   offset computations is the uniform height if itemHeight is a number,
   otherwise the sizing function's value, otherwise the measured height if
   one exists and is not zero, otherwise the estimate. *)
C7_ExtentPrecedence ==
    LET used == [j \in 1..itemCount |-> UniformFirstExtent(j - 1)]
    IN  /\ \A i \in 0..(itemCount - 1) : extent(i) = used[i + 1]
        /\ totalHeight = SumSeq(used)
        /\ \A i \in 0..itemCount : prefixSum(i) = SumSeq(Slice(used, 0, i))
        /\ visibleRange = RangeOf(used, scrollTop, containerHeight, overscan,
                                  estimatedItemHeight, itemCount)

(* all three sources are present for some index and disagree: the uniform
   height is the one in use *)
C7_Witness ==
    /\ IsNumber(itemHeight)
    /\ getItemHeight # <<>>
    /\ \E i \in 0..(itemCount - 1) :
          /\ i \in DOMAIN heights
          /\ heights[i] # 0
          /\ heights[i] # itemHeight[1]
          /\ getItemHeight[1][i + 1] # itemHeight[1]
          /\ estimatedItemHeight # itemHeight[1]
          /\ extent(i) = itemHeight[1]

(* ----- properties of the load-more effect ----- *)
(* C8, as claimed: fetchNextPage is invoked at most once for each time
   items.length - end <= loadMoreThreshold goes from false to true. *)
C8_OncePerCrossing == fetchCalls <= crossings

(* C8, amended: fetchNextPage is invoked at most once per run of the effect,
   that is once on mount and once per render in which one of hasNextPage,
   isFetchingNextPage, items.length, visibleRange.end, loadMoreThreshold or
   fetchNextPage changed; on mount with a near-end window, more pages and no
   fetch in flight it is invoked exactly once. *)
C8_OncePerEffectRun ==
    /\ fetchCalls <= effectRuns
    /\ (effectRuns = 1 /\ shouldLoadMore /\ fetchNextPage # "undefined")
          => fetchCalls = 1

(* fetchNextPage was invoked a second time although the window never left the
   threshold zone *)
C8_Witness ==
    /\ fetchCalls = 2
    /\ crossings = 1
    /\ effectRuns >= 2

(* C9: fetchNextPage is invoked only by a run of the effect that sees more
   pages, no fetch in flight and a window within loadMoreThreshold of the
   end; a run that sees isFetchingNextPage, no next page or a window far from
   the end makes no call. *)
C9_NoFetchUnlessAllowed ==
    fired =>
        /\ hasNextPage
        /\ ~isFetchingNextPage
        /\ Len(items) - visibleRange.end <= loadMoreThreshold

(* a fetch is in flight after an earlier call, the effect has run again with
   the window near the end and more pages, and it made no call *)
C9_Witness ==
    /\ effectRuns >= 2
    /\ fetchCalls >= 1
    /\ fetchNextPage # "undefined"
    /\ hasNextPage
    /\ isFetchingNextPage
    /\ nearEnd
    /\ ~fired

(* ----- properties of programmatic scrolling ----- *)
RECURSIVE SumExtentsBefore(_)
(* sum of the extents of the items at indices 0..i-1 *)
SumExtentsBefore(i) == IF i <= 0 THEN 0 ELSE SumExtentsBefore(i - 1) + extent(i - 1)

(* C11: with a scroll element attached, scrollToIndex(i) for an index i in
   [0, itemCount - 1] sets the element's offset to the sum of the extents
   of the items before i, and scrollToTop sets it to 0. *)
C11_ScrollToPrefixSum ==
    [][scrollElementAttached =>
         /\ \A i \in 0..(itemCount - 1) :
               scrollToIndex(i) => elementScrollTop' = SumExtentsBefore(i)
         /\ scrollToTop => elementScrollTop' = 0]_vars

(* a programmatic scroll has moved the element to the offset of an item
   after the first, ahead of the hook's scroll state *)
C11_Witness ==
    /\ scrollElementAttached
    /\ elementScrollTop > 0
    /\ scrollTop # elementScrollTop
    /\ \E i \in 1..(itemCount - 1) :
          elementScrollTop = SumExtentsBefore(i) /\ extent(i) > 0

ClampIndex(i) == Max(0, Min(i, itemCount - 1))

(* C12: scrollToIndex with an index below 0 sets the same offset as
   scrollToIndex(0), and with an index above itemCount - 1 the same offset
   as scrollToIndex(itemCount - 1). *)
C12_OutOfRangeClamped ==
    [][(scrollElementAttached /\ itemCount >= 1) =>
         \A i \in ScrollTargets :
            scrollToIndex(i) => elementScrollTop' = SumExtentsBefore(ClampIndex(i))]_vars

(* ----- properties of measurement reports ----- *)
(* C13: after any sequence of measurement reports, two queued before one
   render included, the stored height of every index is the most recent
   report for that index, reports for other indices leave it alone, and the
   range of the next render is computed from all of them. *)
C13_LastWriteWins ==
    /\ heights = reported
    /\ visibleRange = computedRange

(* two indices hold different reported heights and one of them decides the
   extent of its item *)
C13_Witness ==
    \E i \in DOMAIN heights, j \in DOMAIN heights :
        /\ i # j
        /\ heights[i] # heights[j]
        /\ i < itemCount
        /\ heights[i] # 0
        /\ extent(i) = heights[i]
        /\ extent(i) # estimatedItemHeight

(* C14: a step that leaves the item sequence alone neither creates nor
   changes a stored height for an index at or beyond itemCount. *)
C14_NoEntryBeyondSequence ==
    [][items' = items =>
         \A k \in DOMAIN heights' :
            k >= itemCount => (k \in DOMAIN heights /\ heights'[k] = heights[k])]_vars

(* C15: when the item sequence changes, every index of the new sequence
   resolves to the estimate. *)
C15_SizesDroppedOnChange ==
    [][items' # items =>
         itemHeights' = [j \in 1..Len(items') |-> estimatedItemHeight']]_vars

(* ----- properties of the masonry layout ----- *)
ExampleHeights == <<100, 150, 80, 120, 90>>
ExamplePositions == PackPositions(ExampleHeights, 2, 1, 10)

(* the column the stored position of item j lies in *)
ColumnOf(j) == positions[j + 1].x \div (columnWidth + gap)

RECURSIVE ColumnLoad(_, _)
(* height accumulated in column c by the items before index i: the sum of
   height + gap over the items placed in c *)
ColumnLoad(c, i) ==
    IF i <= 0 THEN 0
    ELSE ColumnLoad(c, i - 1)
           + (IF ColumnOf(i - 1) = c THEN masonryHeights[i] + gap ELSE 0)

PositionsSettled == ~masonryRaised /\ ~positionsPending

(* C16: once the position effect has run for a layout with at least one
   column, every item, taken in sequence order, lies in the lowest-indexed
   column among those with the least accumulated height, at
   x = column * (columnWidth + gap) and y = that accumulated height, the
   column then growing by height + gap; for heights [100, 150, 80, 120, 90],
   2 columns and gap 10, items 0, 2, 4 lie in column 0 and items 1, 3 in
   column 1. *)
C16_GreedyPacking ==
    /\ [j \in 1..5 |-> ExamplePositions[j].x \div 11] = <<0, 1, 0, 1, 0>>
    /\ (PositionsSettled /\ masonryColumns >= 1) =>
         /\ Len(positions) = Len(items)
         /\ \A i \in 0..(Len(items) - 1) :
               /\ ColumnOf(i) \in 0..(masonryColumns - 1)
               /\ positions[i + 1].x = ColumnOf(i) * (columnWidth + gap)
               /\ positions[i + 1].y = Finite(ColumnLoad(ColumnOf(i), i))
               /\ positions[i + 1].height = masonryHeights[i + 1]
               /\ \A c \in 0..(masonryColumns - 1) :
                     /\ ColumnLoad(ColumnOf(i), i) <= ColumnLoad(c, i)
                     /\ c < ColumnOf(i) => ColumnLoad(ColumnOf(i), i) < ColumnLoad(c, i)

(* three items packed into at least two columns: the second went to
   column 1 on a tie-free comparison and the third back to column 0 below
   the first *)
C16_Witness ==
    /\ PositionsSettled
    /\ masonryColumns >= 2
    /\ Len(items) = 3
    /\ Len(positions) = 3
    /\ ColumnOf(0) = 0
    /\ ColumnOf(1) = 1
    /\ masonryHeights[2] > 0
    /\ ColumnOf(2) = 0
    /\ positions[3].y.value > 0

UsedColumns == {ColumnOf(i) : i \in 0..(Len(items) - 1)}

(* C17: the masonry total height is 0 when there are no positions; once the
   position effect has run for a layout with at least one column it is the
   greatest final accumulated column height with the trailing gap removed,
   which is the greatest y + height of an item; it is 290 for the example
   of C16. *)
C17_MasonryTotalHeight ==
    /\ TotalHeightOf(ExamplePositions, 10) = Finite(290)
    /\ (~masonryRaised /\ Len(positions) = 0) => masonryTotalHeight = Finite(0)
    /\ (PositionsSettled /\ masonryColumns >= 1 /\ Len(items) >= 1) =>
         /\ masonryTotalHeight.kind = "number"
         /\ \E c \in UsedColumns :
               masonryTotalHeight.value = ColumnLoad(c, Len(items)) - gap
         /\ \A c \in UsedColumns :
               masonryTotalHeight.value >= ColumnLoad(c, Len(items)) - gap
         /\ \E i \in 1..Len(positions) :
               masonryTotalHeight.value = positions[i].y.value + positions[i].height
         /\ \A i \in 1..Len(positions) :
               masonryTotalHeight.value >= positions[i].y.value + positions[i].height

(* two columns of different height with a gap between stacked items *)
C17_Witness ==
    /\ PositionsSettled
    /\ masonryColumns >= 2
    /\ gap >= 1
    /\ Len(items) = 3
    /\ Len(positions) = 3
    /\ UsedColumns = {0, 1}
    /\ ColumnLoad(0, 3) # ColumnLoad(1, 3)
    /\ masonryTotalHeight.value > ColumnLoad(1, 3) - gap

(* C18: a visibility query of the masonry hook returns without raising,
   and returns exactly the items whose interval [y, y + height] meets
   [scrollTop - margin, scrollTop + containerHeight + margin], the margin
   being overscan * 100. *)
C18_VisibleWithoutRaising ==
    /\ ~masonryRaised
    /\ ~positionsPending =>
         masonryVisibleItems =
           {i \in 0..(Len(items) - 1) :
               /\ i < Len(positions)
               /\ positions[i + 1].y.kind = "number"
               /\ Max(positions[i + 1].y.value, scrollTop - overscan * 100)
                    <= Min(positions[i + 1].y.value + positions[i + 1].height,
                           scrollTop + globalContainerHeight[1] + overscan * 100)}

(* C19: the masonry column count is never less than 1, and once the
   position effect has run every item has a position with a defined y. *)
C19_AtLeastOneColumn ==
    /\ masonryColumns >= 1
    /\ PositionsSettled =>
         /\ Len(positions) = Len(items)
         /\ \A i \in 1..Len(positions) : positions[i].y.kind = "number"

(* ----- properties of the grid dimensions ----- *)
(* C20: the grid column count is the columns prop when one is given, else
   floor((containerWidth + gap) / (itemWidth + gap)), and never less than
   1; the row count is ceil(itemCount / columns), a finite non-negative
   integer; 23 items in 4 columns make 6 rows. *)
C20_GridColumnsAndRows ==
    /\ GridRows(23, GridCols(<<4>>, containerWidth, itemWidth, gap)) = Finite(6)
    /\ gridDimensions.cols =
          (IF columns # << >> /\ columns[1] >= 1
           THEN columns[1]
           ELSE (containerWidth + gap) \div (itemWidth + gap))
    /\ gridDimensions.cols >= 1
    /\ gridDimensions.rows.kind = "number"
    /\ gridDimensions.rows.value >= 0
    /\ gridDimensions.rows.value * gridDimensions.cols >= Len(items)
    /\ (gridDimensions.rows.value - 1) * gridDimensions.cols < Len(items)

(* ----- properties of faulty sizing inputs and of teardown ----- *)
(* C23: a call of the sizing function that fails for one item does not
   abort the range computation: a range is returned and that item alone
   takes the estimated default. *)
C23_SizingFailureIsolated ==
    /\ ~ItemHeightsRaises
    /\ mounted
    /\ \A i \in sizingThrowsAt : i < itemCount => extent(i) = estimatedItemHeight

(* C24: every extent the range computation uses is >= 0, whatever the
   uniform height, the sizing function or a measurement supplies. *)
C24_ExtentsNonNegative ==
    ~ItemHeightsRaises => \A i \in 0..(itemCount - 1) : extent(i) >= 0

(* C25: once the hook is detached no rate-limit timer is pending, so
   nothing of the hook runs after teardown. *)
C25_NoTimerAfterTeardown ==
    ~mounted => ~inThrottle

(* ----- properties of the throttled scroll handler ----- *)
(* C27: a scroll event that arrives while no rate-limit timer is pending is
   applied at once and starts the timer; while the timer is pending no step
   changes the scroll state or the visible range. *)
C27_RateCap ==
    [][/\ ~inThrottle => (scrollTop' = elementScrollTop' /\ inThrottle')
       /\ inThrottle => (scrollTop' = scrollTop /\ visibleRange' = visibleRange)]_vars

(* an event moved the element inside the window of an applied event and
   was dropped *)
C27_Witness ==
    /\ inThrottle
    /\ scrollTop > 0
    /\ elementScrollTop > scrollTop
    /\ visibleRange = computedRange

(* C28: a step that moves the scroll element without a scroll event, as
   scrollToIndex and scrollToTop do, needs an attached element and leaves
   the hook's scroll offset, the measured heights and the visible range as
   they are; the handler of the resulting scroll event is what updates
   them. *)
C28_ScrollToFrame ==
    [][/\ \A i \in ScrollTargets :
             (scrollToIndex(i) \/ scrollToTop) =>
                 /\ scrollTop' = scrollTop
                 /\ heights' = heights
                 /\ visibleRange' = visibleRange
                 /\ inThrottle' = inThrottle
                 /\ ~scrollElementAttached => elementScrollTop' = elementScrollTop
       /\ (elementScrollTop' # elementScrollTop) =>
             /\ scrollElementAttached
             /\ scrollTop' = scrollTop
             /\ heights' = heights
             /\ visibleRange' = visibleRange]_vars

(* the element was scrolled below the viewport while the hook still holds
   offset 0 and the range computed for it, which is not the range of the
   element's offset *)
C28_Witness ==
    /\ scrollElementAttached
    /\ scrollTop = 0
    /\ ~inThrottle
    /\ elementScrollTop > containerHeight
    /\ visibleRange = computedRange
    /\ visibleRange # RangeOf(itemHeights, elementScrollTop, containerHeight, overscan,
                              estimatedItemHeight, Len(items))

(* ----- properties of the grid window ----- *)
cellHeight == itemHeight[1]

(* the row that holds the vertical offset v *)
RowAt(v) ==
    CHOOSE r \in 0..v : r * (cellHeight + gap) <= v /\ v < (r + 1) * (cellHeight + gap)

(* the column that holds the horizontal offset v *)
ColAt(v) ==
    CHOOSE c \in 0..v : c * (itemWidth + gap) <= v /\ v < (c + 1) * (itemWidth + gap)

(* the least row count whose cells hold every item *)
RowsNeeded ==
    CHOOSE k \in 0..itemCount : k * gridDimensions.cols >= itemCount
                                /\ \A j \in 0..(k - 1) : j * gridDimensions.cols < itemCount

WindowRows ==
    IF gridDimensions.cols < 1 THEN {}
    ELSE {r \in 0..itemCount :
             /\ r >= RowAt(scrollTop) - overscan
             /\ r <= RowsNeeded - 1
             /\ r <= RowAt(scrollTop + containerHeight) + overscan}

WindowCols ==
    {c \in 0..(gridDimensions.cols - 1) :
        /\ c >= ColAt(scrollLeft) - overscan
        /\ c <= ColAt(scrollLeft + containerWidth) + overscan}

WindowCells ==
    {[index |-> r * gridDimensions.cols + c, row |-> r, col |-> c,
      x |-> c * (itemWidth + gap), y |-> r * (cellHeight + gap)] :
        r \in WindowRows, c \in WindowCols}

(* C21: the visible items of the grid are exactly the cells of the rows
   startRow..endRow and columns startCol..endCol whose index
   row * columns + col is below itemCount, no index twice, each at
   x = col * (cellWidth + gap) and y = row * (cellHeight + gap); the rows
   run from the row of scrollTop minus overscan, not below 0, to the row of
   scrollTop + containerHeight plus overscan, not above rows - 1, and the
   columns likewise. *)
C21_GridWindow ==
    /\ \A a \in 1..Len(gridVisibleItems), b \in 1..Len(gridVisibleItems) :
          a # b => gridVisibleItems[a].index # gridVisibleItems[b].index
    /\ {gridVisibleItems[a] : a \in 1..Len(gridVisibleItems)}
          = {cell \in WindowCells : cell.index < itemCount}

(* a window without overscan that starts below the first row, shows an
   item, and holds a cell past the last item *)
C21_Witness ==
    /\ overscan = 0
    /\ gridDimensions.cols >= 2
    /\ gridVisibleRange.startRow >= 1
    /\ Len(gridVisibleItems) >= 1
    /\ \E cell \in WindowCells : cell.index >= itemCount

(* C22: columns * cellWidth + (columns - 1) * gap <= containerWidth + gap
   for every grid configuration, with an explicit or a computed column
   count. *)
C22_GridFits ==
    gridDimensions.totalWidth <= containerWidth + gap

(* C22, computed column count: when the columns prop is absent or 0,
   columns * cellWidth + (columns - 1) * gap <= containerWidth + gap. *)
C22_ComputedGridFits ==
    (columns = << >> \/ columns = <<0>>) =>
        gridDimensions.totalWidth <= containerWidth + gap

(* a computed count of two or more columns with a gap that fills the
   container exactly *)
C22_Witness ==
    /\ columns = << >>
    /\ gridDimensions.cols >= 2
    /\ gap >= 1
    /\ gridDimensions.totalWidth = containerWidth

(* C26: the total extents of the grid are never negative: totalWidth >= 0
   and totalHeight >= 0 for every input with non-negative sizes and gap,
   an empty item sequence included. *)
C26_GridTotalsNonNegative ==
    /\ gridDimensions.totalWidth >= 0
    /\ gridDimensions.totalHeight.kind = "number"
    /\ gridDimensions.totalHeight.value >= 0

(* ----- properties of the masonry positions over time ----- *)
(* C29: whenever the visible items pair items with positions, the positions
   are those of a full repack of the current item sequence, column width,
   container width, gap and height function. *)
C29_PositionsOfCurrentInputs ==
    (~masonryRaised /\ Len(items) > 0 /\ Len(positions) > 0) =>
        positions = PackPositions(masonryHeights, masonryColumns, columnWidth, gap)

(* C30: in a packing pass over non-negative heights with a non-negative
   gap no column's accumulated height ever decreases from one iteration to
   the next, each item is placed at the least accumulated height of that
   moment, and the y of the items is non-decreasing in item order. *)
C30_PackingMonotone ==
    (PositionsSettled /\ masonryColumns >= 1) =>
        /\ Len(ColumnHeightsTrace(masonryHeights, masonryColumns, gap)) = Len(items) + 1
        /\ \A step \in 1..Len(items) :
              /\ \A col \in 1..masonryColumns :
                    ColumnHeightsTrace(masonryHeights, masonryColumns, gap)[step][col]
                      <= ColumnHeightsTrace(masonryHeights, masonryColumns, gap)[step + 1][col]
              /\ positions[step].y =
                    Finite(MinOf(ColumnHeightsTrace(masonryHeights, masonryColumns, gap)[step]))
        /\ \A i \in 1..Len(positions), j \in 1..Len(positions) :
              i < j => positions[i].y.value <= positions[j].y.value

(* two items side by side at the top and a third below them, with a gap *)
C30_Witness ==
    /\ PositionsSettled
    /\ masonryColumns >= 2
    /\ gap >= 1
    /\ Len(positions) = 3
    /\ positions[1].y.value = positions[2].y.value
    /\ positions[3].y.value > positions[2].y.value
    /\ positions[3].x > 0

(* C31: once the position effect has run for a layout with at least one
   column, two distinct items with the same x lie one below the other, the
   lower one starting at least gap below the bottom y + height of the upper
   one; every x is k * (columnWidth + gap) for a column k below the column
   count, and distinct columns have distinct x. *)
C31_NoOverlap ==
    (PositionsSettled /\ masonryColumns >= 1) =>
        /\ \A i \in 1..Len(positions), j \in 1..Len(positions) :
              (i # j /\ positions[i].x = positions[j].x) =>
                 \/ positions[j].y.value
                       >= positions[i].y.value + positions[i].height + gap
                 \/ positions[i].y.value
                       >= positions[j].y.value + positions[j].height + gap
        /\ \A i \in 1..Len(positions) :
              \E k \in 0..(masonryColumns - 1) :
                 positions[i].x = k * (columnWidth + gap)
        /\ \A k \in 0..(masonryColumns - 1), m \in 0..(masonryColumns - 1) :
              k # m => k * (columnWidth + gap) # m * (columnWidth + gap)

(* three items in two columns with a gap: two of them share a column and
   the third lies beside them *)
C31_Witness ==
    /\ PositionsSettled
    /\ masonryColumns >= 2
    /\ gap >= 1
    /\ Len(positions) = 3
    /\ positions[1].x = positions[3].x
    /\ positions[3].y.value >= positions[1].height + gap
    /\ positions[2].x # positions[1].x

(* ----- properties of the utilities ----- *)
(* C32: a key set and not deleted or cleared since is in the cache while
   less than ttl has passed since its most recent set, and no key is in
   the cache once more than ttl has passed since its most recent set;
   whatever the calls (a set of a key that is
   present, delete, clear), the keys of the pending timeouts, the keys of
   the timers map and the keys of the cache are the same set and no key has
   two pending timeouts. *)
C32_TtlCache ==
    /\ \A key \in DOMAIN liveUntil : now < liveUntil[key] => CacheHas(key)
    /\ \A key \in CacheKeys :
          CacheHas(key) => (key \in DOMAIN liveUntil /\ now <= liveUntil[key])
    /\ {t.key : t \in pendingTimeouts} = DOMAIN cache
    /\ DOMAIN timers = DOMAIN cache
    /\ \A t \in pendingTimeouts, u \in pendingTimeouts : t.key = u.key => t = u
    /\ \A t \in pendingTimeouts : timers[t.key] = t.id /\ t.at = liveUntil[t.key]

(* a key set at time 2 is present at time 3, while another key, set
   earlier, has expired *)
C32_Witness ==
    /\ ttl = 2
    /\ now = 3
    /\ CacheHas(1)
    /\ liveUntil[1] = 4
    /\ 2 \in DOMAIN liveUntil
    /\ ~CacheHas(2)

(* a burst is in progress: a call was made and its timeout has yet to run *)
BurstOpen == timeout # << >>

(* C33: a burst is a run of calls each made before the timeout of the
   previous one ran.  With immediate = false func does not run while the
   burst is open, and when it has ended func has run exactly once for it,
   wait after the last call and with the arguments of that call.  With
   immediate = true func has run exactly once for the burst, at its first
   call and with the arguments of that call, whether the burst is open or
   has ended.  In both modes the one pending timeout of an open burst is
   due wait after the latest call. *)
C33_Debounce ==
    /\ BurstOpen =>
          /\ debounceTimeouts =
                {[id |-> timeout[1], at |-> lastCall[1].at + wait, args |-> lastCall[1].args]}
          /\ runsInBurst = IF immediate THEN 1 ELSE 0
    /\ (~BurstOpen /\ lastCall # << >>) =>
          /\ debounceTimeouts = {}
          /\ runsInBurst = 1
    /\ (~immediate /\ ~BurstOpen /\ lastCall # << >>) =>
          lastRun = <<[at |-> lastCall[1].at + wait, args |-> lastCall[1].args]>>
    /\ (~immediate /\ BurstOpen /\ lastRun # << >>) =>
          lastRun[1].at <= burstFirst[1].at
    /\ (immediate /\ lastCall # << >>) => lastRun = burstFirst

(* a burst of two calls with different arguments at different times has
   ended, and func ran with the arguments of the second *)
C33_Witness ==
    /\ ~immediate
    /\ wait = 2
    /\ ~BurstOpen
    /\ lastCall # << >>
    /\ burstFirst[1].at < lastCall[1].at
    /\ burstFirst[1].args # lastCall[1].args
    /\ lastRun[1].args = lastCall[1].args

(* C34: at most one tick is requested at any time, a frame invokes a
   callback that is in the list once at most once, and a frame invokes
   nothing when the list is empty and the loop is stopped. *)
C34_SingleTickLoop ==
    /\ [](/\ pendingTicks <= 1
          /\ \A c \in FrameCallbacks :
                Occurrences(callbacks, c) <= 1 => invokedInFrame[c] <= 1)
    /\ [][(Len(callbacks) = 0 /\ ~isRunning /\ invokedInFrame' # invokedInFrame) =>
             \A c \in FrameCallbacks : invokedInFrame'[c] = 0]_vars

(* C35: whatever other images unmounted or changed their src, a mounted
   image that has not been loaded is observed by the shared observer, so
   that it is loaded when it intersects the viewport. *)
C35_LazyImagesIsolated ==
    \A image \in DOMAIN lazySrc :
        image \notin DOMAIN loadedSrc => image \in observed

(* ----- properties of the service worker ----- *)
(* C36: every measurement passed to queuePerformanceData is sent at some
   later time, once the network is available and background sync runs. *)
C36_QueuedEventuallySent ==
    \A data \in Measurements : (data \in handed) ~> (data \in delivered)

(* a pass of syncAnalytics has tried every request it took *)
PassComplete == syncing /\ syncRemaining = << >>

(* C37: in a pass of syncAnalytics a request whose fetch resolved is no
   longer in the queue and a request whose fetch rejected still is; when
   the pass is complete every request it took has been tried, whatever
   the outcome of the requests before it, and the queue holds exactly the
   requests whose fetch rejected. *)
C37_DrainPerRequest ==
    /\ syncSucceeded \cap analyticsQueue = {}
    /\ syncFailed \subseteq analyticsQueue
    /\ syncSucceeded \cap syncFailed = {}
    /\ PassComplete =>
          /\ syncSucceeded \cup syncFailed = syncSnapshot
          /\ analyticsQueue = syncFailed

(* a complete pass over three requests in which the fetch of the first
   rejected and a later one resolved *)
C37_Witness ==
    /\ PassComplete
    /\ Cardinality(syncSnapshot) = 3
    /\ 1 \in syncFailed
    /\ 3 \in syncSucceeded
    /\ analyticsQueue = syncFailed

(* ----- properties of the performance monitor ----- *)
(* C38: the latest audit called sendAlert exactly when, in its report, the
   score of some category is below the threshold of that category or the
   value of some checked metric is above the threshold of that metric. *)
C38_AlertIffExceeded ==
    lastReport # << >> =>
        (alerted <=>
            \/ \E category \in DOMAIN lastReport[1].categories :
                  /\ category \in DOMAIN thresholds
                  /\ lastReport[1].categories[category] < thresholds[category]
            \/ \E metric \in metricsToCheck \cap DOMAIN lastReport[1].audits :
                  /\ metric \in DOMAIN thresholds
                  /\ lastReport[1].audits[metric] > thresholds[metric])

(* C39: after the constructor every default threshold name has a threshold:
   the value the caller supplied for it, or else the default. *)
C39_ThresholdsMerged ==
    \A name \in DOMAIN DefaultThresholds :
        /\ name \in DOMAIN thresholds
        /\ thresholds[name] =
              IF name \in DOMAIN SuppliedMap(configThresholds)
              THEN SuppliedMap(configThresholds)[name]
              ELSE DefaultThresholds[name]

====
